---- MODULE Spec2Model ----
(***************************************************************************)
(* Model of the VRL value arithmetic engine                                *)
(* (src/src/compiler/value/arithmetic.rs, impl VrlValueArithmetic for      *)
(* Value).                                                                 *)
(*                                                                         *)
(* A Value is a tagged pair <<kind, payload>>:                             *)
(*   <<"null", <<>>>>            <<"boolean", 0 | 1>>                      *)
(*   <<"integer", i>>            i64 scaled to I64_MIN..I64_MAX            *)
(*   <<"float", <<sg, cls, k>>>> f64 scaled to a small binary format       *)
(*   <<"decimal", <<m, s>>>>     rust_decimal: mantissa m, scale s         *)
(*   <<"bytes", seq of bytes>>   <<"timestamp", t>>   <<"regex", seq>>     *)
(*   <<"array", seq of Value>>                                             *)
(*   <<"object", seq of <<key, Value>>>>  BTreeMap: strictly ascending keys*)
(* A Result is <<"ok", Value>>, <<"err", ValueError>> or <<"panic", msg>>. *)
(***************************************************************************)
EXTENDS Integers, Sequences, FiniteSets, TLC

\* ------------------------------------------------------------------------
\* Bounds: the machine formats, scaled down.
\* ------------------------------------------------------------------------
\* i64::MAX (i64::MIN is -(IntMax + 1))
IntMax == 7
\* significand bits of f64 (53)
FloatPrecision == 2
\* number of binades of f64 above the smallest subnormal
FloatMaxExp == 4
\* fractional bits of the smallest positive f64 (the quantum is 2^-FloatFracBits)
FloatFracBits == 1
\* Decimal::MAX mantissa (2^96 - 1)
DecMaxMant == 39
\* rust_decimal maximum scale (28)
DecMaxScale == 1
\* largest byte value of the byte strings drawn as inputs
MaxByte == 2

I64_MAX == IntMax
I64_MIN == -(IntMax + 1)
I64Modulus == 2 * (IntMax + 1)
\* bytes that one allocation can hold (below i64::MAX on every target)
ALLOC_MAX == IntMax - 1

Abs(n) == IF n < 0 THEN -n ELSE n
Sgn(n) == IF n < 0 THEN -1 ELSE IF n > 0 THEN 1 ELSE 0
Min2(a, b) == IF a < b THEN a ELSE b
Max2(a, b) == IF a < b THEN b ELSE a

RECURSIVE Pow(_, _)
Pow(b, n) == IF n = 0 THEN 1 ELSE b * Pow(b, n - 1)

\* ------------------------------------------------------------------------
\* i64 (core::num): two's complement wrapping operations.
\* ------------------------------------------------------------------------
WrapI64(n) == ((n - I64_MIN) % I64Modulus) + I64_MIN
wrapping_add(a, b) == WrapI64(a + b)
wrapping_sub(a, b) == WrapI64(a - b)
wrapping_mul(a, b) == WrapI64(a * b)
\* truncated remainder (sign of the dividend); I64_MIN % -1 wraps to 0
TruncRem(a, b) == Sgn(a) * (Abs(a) % Abs(b))
wrapping_rem(a, b) == WrapI64(TruncRem(a, b))

\* ------------------------------------------------------------------------
\* f64: <<sg, cls, k>> is (-1)^sg * k / FloatQuantum for cls = "fin",
\* an infinity for cls = "inf", NaN for cls = "nan".  Finite magnitudes are
\* the k = m * 2^e with m < 2^FloatPrecision, e <= FloatMaxExp; results are
\* rounded to nearest, ties to even, and overflow to infinity.
\* ------------------------------------------------------------------------
FloatQuantum == Pow(2, FloatFracBits)
FloatMags == {m * Pow(2, e) : m \in 0..(Pow(2, FloatPrecision) - 1), e \in 0..FloatMaxExp}
FloatOver == Pow(2, FloatPrecision - 1) * Pow(2, FloatMaxExp + 1)

RECURSIVE Significand(_)
Significand(k) == IF k < Pow(2, FloatPrecision) THEN k ELSE Significand(k \div 2)

\* nearest representable magnitude to n/d quanta; FloatOver means overflow
RoundMag(n, d) ==
    LET cands == FloatMags \cup {FloatOver}
        dist(k) == Abs(n - k * d)
    IN CHOOSE k \in cands :
         \A j \in cands :
            \/ dist(k) < dist(j)
            \/ dist(k) = dist(j) /\ (k = j \/ Significand(k) % 2 = 0)

F_NAN == <<0, "nan", 0>>
FInf(sg) == <<sg, "inf", 0>>
FZero(sg) == <<sg, "fin", 0>>
FIsNan(f) == f[2] = "nan"
FIsInf(f) == f[2] = "inf"
FIsZero(f) == f[2] = "fin" /\ f[3] = 0
\* signed numerator of a finite float, in quanta
FNum(f) == IF f[1] = 1 THEN -f[3] ELSE f[3]
\* the float nearest to (-1)^sg * n/d quanta
FRound(sg, n, d) ==
    LET k == RoundMag(n, d) IN IF k = FloatOver THEN FInf(sg) ELSE <<sg, "fin", k>>
FNeg(f) == IF FIsNan(f) THEN f ELSE <<1 - f[1], f[2], f[3]>>
FXor(a, b) == IF a[1] = b[1] THEN 0 ELSE 1

\* f64 + f64
FAdd(a, b) ==
    IF FIsNan(a) \/ FIsNan(b) THEN F_NAN
    ELSE IF FIsInf(a) THEN (IF FIsInf(b) /\ a[1] # b[1] THEN F_NAN ELSE a)
    ELSE IF FIsInf(b) THEN b
    ELSE LET s == FNum(a) + FNum(b)
         IN IF s = 0 THEN FZero(IF a[1] = 1 /\ b[1] = 1 THEN 1 ELSE 0)
            ELSE FRound(IF s < 0 THEN 1 ELSE 0, Abs(s), 1)
\* f64 - f64
FSub(a, b) == FAdd(a, FNeg(b))
\* f64 * f64
FMul(a, b) ==
    IF FIsNan(a) \/ FIsNan(b) THEN F_NAN
    ELSE IF (FIsInf(a) /\ FIsZero(b)) \/ (FIsZero(a) /\ FIsInf(b)) THEN F_NAN
    ELSE IF FIsInf(a) \/ FIsInf(b) THEN FInf(FXor(a, b))
    ELSE FRound(FXor(a, b), a[3] * b[3], FloatQuantum)
\* f64 / f64
FDiv(a, b) ==
    IF FIsNan(a) \/ FIsNan(b) THEN F_NAN
    ELSE IF (FIsInf(a) /\ FIsInf(b)) \/ (FIsZero(a) /\ FIsZero(b)) THEN F_NAN
    ELSE IF FIsInf(a) \/ FIsZero(b) THEN FInf(FXor(a, b))
    ELSE IF FIsInf(b) THEN FZero(FXor(a, b))
    ELSE FRound(FXor(a, b), a[3] * FloatQuantum, b[3])
\* f64 % f64 (fmod: exact, sign of the dividend)
FRem(a, b) ==
    IF FIsNan(a) \/ FIsNan(b) \/ FIsInf(a) \/ FIsZero(b) THEN F_NAN
    ELSE IF FIsInf(b) THEN a
    ELSE <<a[1], "fin", a[3] % b[3]>>
\* f64 == f64 and f64 < f64 (IEEE: -0.0 == 0.0, NaN unordered)
FEq(a, b) ==
    /\ ~FIsNan(a) /\ ~FIsNan(b)
    /\ \/ FIsInf(a) /\ FIsInf(b) /\ a[1] = b[1]
       \/ ~FIsInf(a) /\ ~FIsInf(b) /\ FNum(a) = FNum(b)
FLt(a, b) ==
    /\ ~FIsNan(a) /\ ~FIsNan(b) /\ ~FEq(a, b)
    /\ \/ FIsInf(a) /\ a[1] = 1
       \/ FIsInf(b) /\ b[1] = 0
       \/ ~FIsInf(a) /\ ~FIsInf(b) /\ FNum(a) < FNum(b)
\* `i as f64`
I64AsF64(i) == FRound(IF i < 0 THEN 1 ELSE 0, Abs(i) * FloatQuantum, 1)
\* `f as i64`: truncates toward zero, saturates, NaN becomes 0
F64AsI64(f) ==
    IF FIsNan(f) THEN 0
    ELSE IF FIsInf(f) THEN (IF f[1] = 1 THEN I64_MIN ELSE I64_MAX)
    ELSE LET t == Sgn(FNum(f)) * (f[3] \div FloatQuantum)
         IN IF t > I64_MAX THEN I64_MAX ELSE IF t < I64_MIN THEN I64_MIN ELSE t

\* ------------------------------------------------------------------------
\* rust_decimal::Decimal: <<m, s>> is m / 10^s with |m| <= DecMaxMant and
\* s <= DecMaxScale.  Checked operations compute the exact result and, when
\* it does not fit at its natural scale, lower the scale and round half to
\* even; they return None only when the integer part does not fit.
\* ------------------------------------------------------------------------
NONE == <<"none", <<0, 0>>>>
Some(d) == <<"some", d>>
IsSome(o) == o[1] = "some"
Unwrap(o) == o[2]

DEC_ZERO == <<0, 0>>
DEC_ONE == <<1, 0>>
DEC_MAX == <<DecMaxMant, 0>>
DEC_MIN == <<-DecMaxMant, 0>>
\* Decimal::from(i64)
DecFromI64(i) == <<i, 0>>
DecIsZero(d) == d[1] = 0

\* n / q rounded to the nearest integer, ties to even (q > 0)
RoundHalfEven(n, q) ==
    LET a == Abs(n)
        lo == a \div q
        r2 == 2 * (a % q)
        up == r2 > q \/ (r2 = q /\ lo % 2 = 1)
    IN Sgn(n) * (IF up THEN lo + 1 ELSE lo)

\* the Decimal for the exact value n / (q * 10^s): the largest scale
\* t <= Min2(s, DecMaxScale) whose rounded mantissa fits, or None
DecFit(n, q, s) ==
    LET top == Min2(s, DecMaxScale)
        mant(t) == RoundHalfEven(n * Pow(10, t), q * Pow(10, s))
        fits == {t \in 0..top : Abs(mant(t)) <= DecMaxMant}
    IN IF fits = {} THEN NONE
       ELSE LET t == CHOOSE u \in fits : \A w \in fits : w <= u
            IN Some(<<mant(t), t>>)

\* operands brought to the common scale
DecAlignL(a, b) == a[1] * Pow(10, Max2(a[2], b[2]) - a[2])
DecAlignR(a, b) == b[1] * Pow(10, Max2(a[2], b[2]) - b[2])

checked_add(a, b) == DecFit(DecAlignL(a, b) + DecAlignR(a, b), 1, Max2(a[2], b[2]))
checked_sub(a, b) == DecFit(DecAlignL(a, b) - DecAlignR(a, b), 1, Max2(a[2], b[2]))
checked_mul(a, b) == DecFit(a[1] * b[1], 1, a[2] + b[2])
\* quotient: exact at the smallest scale from a.scale - b.scale upwards
\* where it is exact and fits, otherwise rounded at the largest scale
checked_div(a, b) ==
    IF DecIsZero(b) THEN NONE
    ELSE LET n == Sgn(b[1]) * a[1] * Pow(10, b[2])
             q == Abs(b[1]) * Pow(10, a[2])
             pref == Max2(a[2] - b[2], 0)
             exact == {t \in pref..DecMaxScale :
                          /\ (n * Pow(10, t)) % q = 0
                          /\ Abs((n * Pow(10, t)) \div q) <= DecMaxMant}
         IN IF exact # {}
            THEN LET t == CHOOSE u \in exact : \A w \in exact : u <= w
                 IN Some(<<(n * Pow(10, t)) \div q, t>>)
            ELSE DecFit(n * Pow(10, DecMaxScale), q, DecMaxScale)
\* remainder: exact, sign of the dividend, at the common scale
checked_rem(a, b) ==
    IF DecIsZero(b) THEN NONE
    ELSE Some(<<TruncRem(DecAlignL(a, b), DecAlignR(a, b)), Max2(a[2], b[2])>>)
\* Decimal == Decimal and Decimal < Decimal compare the numbers
DecEq(a, b) == DecAlignL(a, b) = DecAlignR(a, b)
DecLt(a, b) == DecAlignL(a, b) < DecAlignR(a, b)

\* ------------------------------------------------------------------------
\* Value, Kind, ValueError and the conversions of VrlValueConvert.
\* ------------------------------------------------------------------------
Null == <<"null", <<>>>>
Boolean(b) == <<"boolean", IF b THEN 1 ELSE 0>>
Integer(i) == <<"integer", i>>
Float(f) == <<"float", f>>
Decimal(d) == <<"decimal", d>>
Bytes(b) == <<"bytes", b>>
Timestamp(t) == <<"timestamp", t>>
Regex(r) == <<"regex", r>>
Array(a) == <<"array", a>>
Object(o) == <<"object", o>>

kind(v) == v[1]
is_bytes(v) == kind(v) = "bytes"
is_float(v) == kind(v) = "float"
is_decimal(v) == kind(v) = "decimal"
is_integer(v) == kind(v) = "integer"

Ok(v) == <<"ok", v>>
Err(e) == <<"err", e>>
Panic(msg) == <<"panic", <<msg>>>>
IsOk(r) == r[1] = "ok"
IsErr(r) == r[1] = "err"
IsPanic(r) == r[1] = "panic"

\* ValueError::{Add, Sub, Mul, Div, Rem, And, Ge, Merge}(Kind, Kind)
OpError(variant, l, r) == <<variant, kind(l), kind(r)>>
DivideByZero == <<"DivideByZero">>
\* ValueError::Expected { got, expected }
Expected(expected, got) == <<"Expected", expected, got>>
\* ValueError::Or(ExpressionError)
OrError(e) == <<"Or", e>>

\* Value::from_f64_or_zero: NaN becomes 0.0
from_f64_or_zero(f) == IF FIsNan(f) THEN Float(FZero(0)) ELSE Float(f)
\* NotNan<f64> (op) f64 -> NotNan<f64>: panics when the result is NaN
NotNanOp(f, what) == IF FIsNan(f) THEN Panic(what) ELSE Ok(Float(f))

try_into_i64(v) ==
    IF kind(v) = "integer" THEN Some(v[2])
    ELSE IF kind(v) = "float" THEN Some(F64AsI64(v[2]))
    ELSE NONE
try_into_f64(v) ==
    IF kind(v) = "integer" THEN Some(I64AsF64(v[2]))
    ELSE IF kind(v) = "float" THEN Some(v[2])
    ELSE NONE
try_into_decimal(v) ==
    IF kind(v) = "decimal" THEN Some(v[2])
    ELSE IF kind(v) = "integer" THEN Some(DecFromI64(v[2]))
    ELSE NONE

\* [u8]::repeat into Bytes: the allocation of len * n bytes must succeed
RECURSIVE RepeatSeq(_, _)
RepeatSeq(b, n) == IF n = 0 THEN <<>> ELSE b \o RepeatSeq(b, n - 1)
repeat(b, n) ==
    IF Len(b) * n > ALLOC_MAX THEN Panic("capacity overflow")
    ELSE Ok(Bytes(RepeatSeq(b, n)))
as_usize(num) == IF num < 0 THEN 0 ELSE num

\* ------------------------------------------------------------------------
\* impl VrlValueArithmetic for Value
\* ------------------------------------------------------------------------
try_mul(l, r) ==
    LET err == Err(OpError("Mul", l, r)) IN
    IF is_integer(l) /\ is_bytes(r) THEN repeat(r[2], as_usize(l[2]))
    ELSE IF is_integer(l) /\ is_float(r)
    THEN Ok(from_f64_or_zero(FMul(I64AsF64(l[2]), r[2])))
    ELSE IF is_integer(l) /\ is_decimal(r)
    THEN LET d == checked_mul(DecFromI64(l[2]), r[2])
         IN IF IsSome(d) THEN Ok(Decimal(Unwrap(d)))
            ELSE Err(<<"Mul", "integer", "decimal">>)
    ELSE IF is_integer(l)
    THEN LET c == try_into_i64(r)
         IN IF IsSome(c) THEN Ok(Integer(wrapping_mul(l[2], Unwrap(c)))) ELSE err
    ELSE IF is_float(l)
    THEN LET c == try_into_f64(r)
         IN IF IsSome(c) THEN NotNanOp(FMul(l[2], Unwrap(c)), "Multiplication resulted in NaN")
            ELSE err
    ELSE IF is_decimal(l)
    THEN LET c == try_into_decimal(r)
         IN IF ~IsSome(c) THEN Err(<<"Mul", "decimal", kind(r)>>)
            ELSE LET d == checked_mul(l[2], Unwrap(c))
                 IN IF IsSome(d) THEN Ok(Decimal(Unwrap(d)))
                    ELSE Err(<<"Mul", "decimal", "decimal">>)
    ELSE IF is_bytes(l) /\ is_integer(r) THEN repeat(l[2], as_usize(r[2]))
    ELSE err

try_div(l, r) ==
    LET err == Err(OpError("Div", l, r)) IN
    IF is_decimal(l)
    THEN LET c == try_into_decimal(r)
         IN IF ~IsSome(c) THEN err
            ELSE IF DecIsZero(Unwrap(c)) THEN Err(DivideByZero)
            ELSE LET d == checked_div(l[2], Unwrap(c))
                 IN IF IsSome(d) THEN Ok(Decimal(Unwrap(d))) ELSE err
    ELSE IF is_integer(l) /\ is_decimal(r)
    THEN IF DecIsZero(r[2]) THEN Err(DivideByZero)
         ELSE LET d == checked_div(DecFromI64(l[2]), r[2])
              IN IF IsSome(d) THEN Ok(Decimal(Unwrap(d)))
                 ELSE Err(<<"Div", "integer", "decimal">>)
    ELSE LET c == try_into_f64(r)
         IN IF ~IsSome(c) THEN err
            ELSE IF FIsZero(Unwrap(c)) THEN Err(DivideByZero)
            ELSE IF is_integer(l)
            THEN Ok(from_f64_or_zero(FDiv(I64AsF64(l[2]), Unwrap(c))))
            ELSE IF is_float(l)
            THEN Ok(from_f64_or_zero(FDiv(l[2], Unwrap(c))))
            ELSE err

\* try_add_integer_decimal without the Decimal arm: the Decimal is truncated
\* to i64 and the Integer arm adds
try_add_integer_decimal_truncating(l, r) ==
    Ok(Integer(wrapping_add(l[2], WrapI64(Sgn(r[2][1]) * (Abs(r[2][1]) \div Pow(10, r[2][2]))))))
\* try_add, arm (Value::Integer(lhs), Value::Decimal(rhs))
try_add_integer_decimal(l, r) ==
    LET d == checked_add(DecFromI64(l[2]), r[2])
    IN IF IsSome(d) THEN Ok(Decimal(Unwrap(d)))
       ELSE Err(<<"Add", "integer", "decimal">>)
\* try_add_integer with i64::checked_add in place of i64::wrapping_add
try_add_integer_checked(l, r) ==
    LET c == try_into_i64(r)
    IN IF ~IsSome(c) THEN Err(<<"Add", "integer", kind(r)>>)
       ELSE IF l[2] + Unwrap(c) \in I64_MIN..I64_MAX THEN Ok(Integer(l[2] + Unwrap(c)))
       ELSE Err(<<"Add", "integer", "integer">>)
\* try_add, arm (Value::Integer(lhs), rhs)
try_add_integer(l, r) ==
    LET c == try_into_i64(r)
    IN IF IsSome(c) THEN Ok(Integer(wrapping_add(l[2], Unwrap(c))))
       ELSE Err(<<"Add", "integer", kind(r)>>)
\* try_add, arm (Value::Float(lhs), rhs)
try_add_float(l, r) ==
    LET c == try_into_f64(r)
    IN IF IsSome(c) THEN NotNanOp(FAdd(l[2], Unwrap(c)), "Addition resulted in NaN")
       ELSE Err(<<"Add", "float", kind(r)>>)
\* try_add_decimal with a Float right operand converted instead of rejected
try_add_decimal_from_float(l, r) ==
    LET c == IF is_float(r) /\ ~FIsInf(r[2])
             THEN DecFit(FNum(r[2]) * 10, FloatQuantum * 10, 1)
             ELSE try_into_decimal(r)
    IN IF ~IsSome(c) THEN Err(<<"Add", "decimal", kind(r)>>)
       ELSE LET d == checked_add(l[2], Unwrap(c))
            IN IF IsSome(d) THEN Ok(Decimal(Unwrap(d)))
               ELSE Err(<<"Add", "decimal", "decimal">>)
\* try_add_decimal with Decimal::saturating_add in place of checked_add
try_add_decimal_saturating(l, r) ==
    LET c == try_into_decimal(r)
    IN IF ~IsSome(c) THEN Err(<<"Add", "decimal", kind(r)>>)
       ELSE LET d == checked_add(l[2], Unwrap(c))
            IN IF IsSome(d) THEN Ok(Decimal(Unwrap(d)))
               ELSE Ok(Decimal(IF l[2][1] < 0 THEN DEC_MIN ELSE DEC_MAX))
\* try_add, arm (Value::Decimal(lhs), rhs)
try_add_decimal(l, r) ==
    LET c == try_into_decimal(r)
    IN IF ~IsSome(c) THEN Err(<<"Add", "decimal", kind(r)>>)
       ELSE LET d == checked_add(l[2], Unwrap(c))
            IN IF IsSome(d) THEN Ok(Decimal(Unwrap(d)))
               ELSE Err(<<"Add", "decimal", "decimal">>)

try_add(l, r) ==
    IF is_integer(l) /\ is_float(r)
    THEN Ok(from_f64_or_zero(FAdd(I64AsF64(l[2]), r[2])))
    ELSE IF is_integer(l) /\ is_decimal(r) THEN try_add_integer_decimal(l, r)
    ELSE IF is_integer(l) THEN try_add_integer(l, r)
    ELSE IF is_float(l) THEN try_add_float(l, r)
    ELSE IF is_decimal(l) THEN try_add_decimal(l, r)
    ELSE IF is_bytes(l) /\ kind(r) = "null" THEN Ok(l)
    ELSE IF is_bytes(l) /\ is_bytes(r) THEN Ok(Bytes(l[2] \o r[2]))
    ELSE IF kind(l) = "null" /\ is_bytes(r) THEN Ok(r)
    ELSE Err(OpError("Add", l, r))

safe_sub(lhv, rhv) ==
    LET res == FSub(lhv, rhv)
    IN IF FIsNan(res) THEN NONE ELSE Some(from_f64_or_zero(res))

try_sub(l, r) ==
    LET err == Err(OpError("Sub", l, r)) IN
    IF is_integer(l) /\ is_float(r)
    THEN Ok(from_f64_or_zero(FSub(I64AsF64(l[2]), r[2])))
    ELSE IF is_integer(l) /\ is_decimal(r)
    THEN LET d == checked_sub(DecFromI64(l[2]), r[2])
         IN IF IsSome(d) THEN Ok(Decimal(Unwrap(d)))
            ELSE Err(<<"Sub", "integer", "decimal">>)
    ELSE IF is_integer(l)
    THEN LET c == try_into_i64(r)
         IN IF IsSome(c) THEN Ok(Integer(wrapping_sub(l[2], Unwrap(c)))) ELSE err
    ELSE IF is_float(l)
    THEN LET c == try_into_f64(r)
         IN IF ~IsSome(c) THEN err
            ELSE LET v == safe_sub(l[2], Unwrap(c))
                 IN IF IsSome(v) THEN Ok(Unwrap(v)) ELSE err
    ELSE IF is_decimal(l)
    THEN LET c == try_into_decimal(r)
         IN IF ~IsSome(c) THEN err
            ELSE LET d == checked_sub(l[2], Unwrap(c))
                 IN IF IsSome(d) THEN Ok(Decimal(Unwrap(d)))
                    ELSE Err(<<"Sub", "decimal", "decimal">>)
    ELSE err

\* try_or evaluating the closure before looking at the left operand
try_or_eager(l, rhs_fn) ==
    IF l = Null \/ l = Boolean(FALSE)
    THEN <<IF IsErr(rhs_fn) THEN Err(OrError(rhs_fn[2])) ELSE rhs_fn, 1>>
    ELSE <<Ok(l), 1>>
\* rhs_fn is the Result the caller-supplied closure returns when invoked;
\* the pair is <<result of try_or, number of invocations of the closure>>
try_or(l, rhs_fn) ==
    IF l = Null \/ l = Boolean(FALSE)
    THEN <<IF IsErr(rhs_fn) THEN Err(OrError(rhs_fn[2])) ELSE rhs_fn, 1>>
    ELSE <<Ok(l), 0>>

try_and(l, r) ==
    LET err == Err(OpError("And", l, r)) IN
    IF kind(l) = "null" THEN Ok(Boolean(FALSE))
    ELSE IF kind(l) = "boolean"
    THEN IF kind(r) = "null" THEN Ok(Boolean(FALSE))
         ELSE IF kind(r) = "boolean" THEN Ok(Boolean(l[2] = 1 /\ r[2] = 1))
         ELSE err
    ELSE err

try_rem(l, r) ==
    LET err == Err(OpError("Rem", l, r)) IN
    IF is_decimal(l)
    THEN LET c == try_into_decimal(r)
         IN IF ~IsSome(c) THEN err
            ELSE IF DecIsZero(Unwrap(c)) THEN Err(DivideByZero)
            ELSE LET d == checked_rem(l[2], Unwrap(c))
                 IN IF IsSome(d) THEN Ok(Decimal(Unwrap(d)))
                    ELSE Err(<<"Rem", "decimal", "decimal">>)
    ELSE IF is_integer(l) /\ is_decimal(r)
    THEN IF DecIsZero(r[2]) THEN Err(DivideByZero)
         ELSE LET d == checked_rem(DecFromI64(l[2]), r[2])
              IN IF IsSome(d) THEN Ok(Decimal(Unwrap(d)))
                 ELSE Err(<<"Rem", "integer", "decimal">>)
    ELSE LET c == try_into_f64(r)
         IN IF ~IsSome(c) THEN err
            ELSE IF FIsZero(Unwrap(c)) THEN Err(DivideByZero)
            ELSE IF is_integer(l) /\ is_float(r)
            THEN Ok(from_f64_or_zero(FRem(I64AsF64(l[2]), r[2])))
            ELSE IF is_integer(l)
            THEN LET right == try_into_i64(r)
                 IN IF IsSome(right) THEN Ok(Integer(wrapping_rem(l[2], Unwrap(right))))
                    ELSE err
            ELSE IF is_float(l)
            THEN NotNanOp(FRem(l[2], Unwrap(c)), "Rem resulted in NaN")
            ELSE err

\* the four orderings, on i64 / DateTime, f64, Decimal and Bytes
CmpInt(op, a, b) ==
    CASE op = "gt" -> a > b [] op = "ge" -> a >= b
      [] op = "lt" -> a < b [] op = "le" -> a <= b
CmpFloat(op, a, b) ==
    CASE op = "gt" -> FLt(b, a) [] op = "ge" -> FLt(b, a) \/ FEq(a, b)
      [] op = "lt" -> FLt(a, b) [] op = "le" -> FLt(a, b) \/ FEq(a, b)
CmpDecimal(op, a, b) ==
    CASE op = "gt" -> DecLt(b, a) [] op = "ge" -> ~DecLt(a, b)
      [] op = "lt" -> DecLt(a, b) [] op = "le" -> ~DecLt(b, a)
RECURSIVE BytesLt(_, _)
BytesLt(a, b) ==
    IF b = <<>> THEN FALSE
    ELSE IF a = <<>> THEN TRUE
    ELSE IF Head(a) # Head(b) THEN Head(a) < Head(b)
    ELSE BytesLt(Tail(a), Tail(b))
CmpBytes(op, a, b) ==
    CASE op = "gt" -> BytesLt(b, a) [] op = "ge" -> ~BytesLt(a, b)
      [] op = "lt" -> BytesLt(a, b) [] op = "le" -> ~BytesLt(b, a)

\* the common shape of try_gt, try_ge, try_lt and try_le; variant is the
\* ValueError variant the function's err closure builds
try_cmp(op, variant, l, r) ==
    LET err == Err(OpError(variant, l, r)) IN
    IF is_integer(l) /\ is_float(r)
    THEN Ok(Boolean(CmpFloat(op, I64AsF64(l[2]), r[2])))
    ELSE IF is_integer(l)
    THEN LET c == try_into_i64(r)
         IN IF IsSome(c) THEN Ok(Boolean(CmpInt(op, l[2], Unwrap(c)))) ELSE err
    ELSE IF is_float(l)
    THEN LET c == try_into_f64(r)
         IN IF IsSome(c) THEN Ok(Boolean(CmpFloat(op, l[2], Unwrap(c)))) ELSE err
    ELSE IF is_decimal(l)
    THEN LET c == try_into_decimal(r)
         IN IF IsSome(c) THEN Ok(Boolean(CmpDecimal(op, l[2], Unwrap(c)))) ELSE err
    ELSE IF is_bytes(l)
    THEN IF is_bytes(r) THEN Ok(Boolean(CmpBytes(op, l[2], r[2])))
         ELSE Err(Expected("bytes", kind(r)))
    ELSE IF kind(l) = "timestamp"
    THEN IF kind(r) = "timestamp" THEN Ok(Boolean(CmpInt(op, l[2], r[2])))
         ELSE Err(Expected("timestamp", kind(r)))
    ELSE err

try_gt(l, r) == try_cmp("gt", "Rem", l, r)
try_ge(l, r) == try_cmp("ge", "Ge", l, r)
try_lt(l, r) == try_cmp("lt", "Ge", l, r)
try_le(l, r) == try_cmp("le", "Ge", l, r)

\* BTreeMap::insert on the ascending key sequence
RECURSIVE MapInsert(_, _, _)
MapInsert(m, k, v) ==
    IF m = <<>> THEN << <<k, v>> >>
    ELSE IF Head(m)[1] = k THEN << <<k, v>> >> \o Tail(m)
    ELSE IF Head(m)[1] > k THEN << <<k, v>> >> \o m
    ELSE <<Head(m)>> \o MapInsert(Tail(m), k, v)
\* Iterator::collect::<ObjectMap>: inserts the pairs in iteration order
RECURSIVE CollectObjectMap(_, _)
CollectObjectMap(acc, pairs) ==
    IF pairs = <<>> THEN acc
    ELSE CollectObjectMap(MapInsert(acc, Head(pairs)[1], Head(pairs)[2]), Tail(pairs))

\* try_merge chaining the right operand's entries before the left's
try_merge_left_wins(l, r) ==
    IF kind(l) = "object" /\ kind(r) = "object"
    THEN Ok(Object(CollectObjectMap(<<>>, r[2] \o l[2])))
    ELSE Err(OpError("Merge", l, r))
try_merge(l, r) ==
    IF kind(l) = "object" /\ kind(r) = "object"
    THEN Ok(Object(CollectObjectMap(<<>>, l[2] \o r[2])))
    ELSE Err(OpError("Merge", l, r))

\* Decimal::try_from(f64): fails on the infinities, NaN and magnitudes beyond
\* Decimal::MAX, otherwise the Decimal nearest to the float
DecTryFromF64(f) ==
    IF f[2] # "fin" THEN NONE
    ELSE DecFit(FNum(f) * Pow(10, DecMaxScale), FloatQuantum, DecMaxScale)

\* Value == Value, the derived PartialEq: same variant and equal payloads
\* (NotNan<f64> and Decimal payloads compare as numbers)
RECURSIVE PartialEq(_, _)
PartialEq(a, b) ==
    IF kind(a) # kind(b) THEN FALSE
    ELSE IF kind(a) = "float" THEN FEq(a[2], b[2])
    ELSE IF kind(a) = "decimal" THEN DecEq(a[2], b[2])
    ELSE IF kind(a) = "array"
    THEN /\ Len(a[2]) = Len(b[2])
         /\ \A i \in 1..Len(a[2]) : PartialEq(a[2][i], b[2][i])
    ELSE IF kind(a) = "object"
    THEN /\ Len(a[2]) = Len(b[2])
         /\ \A i \in 1..Len(a[2]) :
               a[2][i][1] = b[2][i][1] /\ PartialEq(a[2][i][2], b[2][i][2])
    ELSE a[2] = b[2]

eq_lossy(l, r) ==
    IF is_decimal(l) /\ is_decimal(r) THEN DecEq(l[2], r[2])
    ELSE IF is_decimal(l) /\ is_integer(r) THEN DecEq(l[2], DecFromI64(r[2]))
    ELSE IF is_integer(l) /\ is_decimal(r) THEN DecEq(DecFromI64(l[2]), r[2])
    ELSE IF is_decimal(l) /\ is_float(r)
    THEN LET c == DecTryFromF64(r[2]) IN IsSome(c) /\ DecEq(l[2], Unwrap(c))
    ELSE IF is_float(l) /\ is_decimal(r)
    THEN LET c == DecTryFromF64(l[2]) IN IsSome(c) /\ DecEq(Unwrap(c), r[2])
    ELSE IF is_integer(l) /\ is_float(r) THEN FEq(I64AsF64(l[2]), r[2])
    ELSE IF is_float(l) /\ is_integer(r) THEN FEq(l[2], I64AsF64(r[2]))
    ELSE IF is_float(l) /\ is_float(r) THEN FEq(l[2], r[2])
    ELSE IF is_integer(l) /\ is_integer(r) THEN l[2] = r[2]
    ELSE PartialEq(l, r)

\* ------------------------------------------------------------------------
\* Text.  A text is a sequence of one-character strings; BOM stands for the
\* three bytes EF BB BF, INVALID for a byte that is no UTF-8 and
\* REPLACEMENT for U+FFFD.
\* ------------------------------------------------------------------------
U64_MAX == 2 * IntMax + 1
BOM == "BOM"
INVALID == "INVALID"
REPLACEMENT == "REPLACEMENT"
DigitChars == <<"0", "1", "2", "3", "4", "5", "6", "7", "8", "9">>
IsDigit(c) == \E i \in 1..10 : DigitChars[i] = c
DigitVal(c) == (CHOOSE i \in 1..10 : DigitChars[i] = c) - 1
AllDigits(t) == \A i \in 1..Len(t) : IsDigit(t[i])
Contains(t, cs) == \E i \in 1..Len(t) : t[i] \in cs
\* the first index of t holding a character of cs, or Len(t) + 1
IndexOf(t, cs) ==
    IF Contains(t, cs) THEN CHOOSE i \in 1..Len(t) : t[i] \in cs /\ \A j \in 1..(i - 1) : t[j] \notin cs
    ELSE Len(t) + 1
RECURSIVE DigitsVal(_)
DigitsVal(t) == IF t = <<>> THEN 0 ELSE 10 * DigitsVal(SubSeq(t, 1, Len(t) - 1)) + DigitVal(t[Len(t)])
RECURSIVE NatToChars(_)
NatToChars(n) ==
    IF n < 10 THEN <<DigitChars[n + 1]>> ELSE NatToChars(n \div 10) \o <<DigitChars[(n % 10) + 1]>>
\* n written with exactly w digits
RECURSIVE NatToCharsPadded(_, _)
NatToCharsPadded(n, w) ==
    IF w = 0 THEN <<>> ELSE NatToCharsPadded(n \div 10, w - 1) \o <<DigitChars[(n % 10) + 1]>>
\* i64::to_string
I64ToChars(i) == IF i < 0 THEN <<"-">> \o NatToChars(-i) ELSE NatToChars(i)

\* str::parse::<i64>: an optional sign and digits, within the i64 range
ParseI64(t) ==
    LET signed == t # <<>> /\ t[1] \in {"-", "+"}
        digits == IF signed THEN Tail(t) ELSE t
        v == IF signed /\ t[1] = "-" THEN -DigitsVal(digits) ELSE DigitsVal(digits)
    IN IF digits = <<>> \/ ~AllDigits(digits) THEN NONE
       ELSE IF v < I64_MIN \/ v > I64_MAX THEN NONE
       ELSE Some(v)

\* str::parse::<Decimal>: an optional sign, digits and at most one '.', no
\* exponent.  Fractional digits the Decimal cannot hold are rounded away on
\* the first dropped digit; an integer part beyond Decimal::MAX is an error.
ParseDecimal(t) ==
    LET signed == t # <<>> /\ t[1] \in {"-", "+"}
        body == IF signed THEN Tail(t) ELSE t
        dot == IndexOf(body, {"."})
        int == SubSeq(body, 1, dot - 1)
        frac == SubSeq(body, dot + 1, Len(body))
        mant(k) == DigitsVal(int \o SubSeq(frac, 1, k))
        fits == {k \in 0..Min2(Len(frac), DecMaxScale) : mant(k) <= DecMaxMant}
    IN IF int \o frac = <<>> \/ ~AllDigits(int \o frac) THEN NONE
       ELSE IF fits = {} THEN NONE
       ELSE LET k == CHOOSE u \in fits : \A w \in fits : w <= u
                up == k < Len(frac) /\ DigitVal(frac[k + 1]) >= 5
                m == mant(k) + (IF up THEN 1 ELSE 0)
            IN IF m > DecMaxMant THEN NONE
               ELSE Some(<<IF signed /\ t[1] = "-" THEN -m ELSE m, k>>)

\* Decimal::to_string: the mantissa with the point scale digits from the right
DecimalToChars(d) ==
    LET a == Abs(d[1])
        p == Pow(10, d[2])
        digits == NatToChars(a \div p)
                  \o (IF d[2] = 0 THEN <<>> ELSE <<".">> \o NatToCharsPadded(a % p, d[2]))
    IN IF d[1] < 0 THEN <<"-">> \o digits ELSE digits
\* Decimal::fract().is_zero() and i64::try_from(Decimal)
DecFractIsZero(d) == d[1] % Pow(10, d[2]) = 0
DecTryIntoI64(d) ==
    LET t == Sgn(d[1]) * (Abs(d[1]) \div Pow(10, d[2]))
    IN IF t < I64_MIN \/ t > I64_MAX THEN NONE ELSE Some(t)

\* ------------------------------------------------------------------------
\* serde_json's reader: the span of one JSON value in a text, and the spans
\* of the members of an array or object.
\* ------------------------------------------------------------------------
WS == " "
NumChars == {"-", "+", ".", "e", "E"} \cup {DigitChars[i] : i \in 1..10}
RECURSIVE SkipWs(_, _)
SkipWs(s, i) == IF i <= Len(s) /\ s[i] = WS THEN SkipWs(s, i + 1) ELSE i
At(s, i) == IF i >= 1 /\ i <= Len(s) THEN s[i] ELSE "EOF"
StartsWith(s, p) == Len(s) >= Len(p) /\ SubSeq(s, 1, Len(p)) = p
MatchesAt(s, i, p) == i + Len(p) - 1 <= Len(s) /\ SubSeq(s, i, i + Len(p) - 1) = p

\* the JSON number grammar: -? (0 | [1-9][0-9]*) (. [0-9]+)? ([eE] [+-]? [0-9]+)?
IsJsonNumber(t) ==
    LET body == IF t # <<>> /\ t[1] = "-" THEN Tail(t) ELSE t
        e == IndexOf(body, {"e", "E"})
        mantissa == SubSeq(body, 1, e - 1)
        expo == SubSeq(body, e + 1, Len(body))
        digits == IF expo # <<>> /\ expo[1] \in {"+", "-"} THEN Tail(expo) ELSE expo
        dot == IndexOf(mantissa, {"."})
        int == SubSeq(mantissa, 1, dot - 1)
        frac == SubSeq(mantissa, dot + 1, Len(mantissa))
    IN /\ int # <<>> /\ AllDigits(int) /\ (Len(int) = 1 \/ int[1] # "0")
       /\ dot <= Len(mantissa) => (frac # <<>> /\ AllDigits(frac))
       /\ e <= Len(body) => (digits # <<>> /\ AllDigits(digits))

RECURSIVE NumberEnd(_, _)
NumberEnd(s, i) == IF i <= Len(s) /\ s[i] \in NumChars THEN NumberEnd(s, i + 1) ELSE i
\* the index after the string that opens at s[i], 0 when it does not close or
\* holds a byte that is no UTF-8
RECURSIVE StringEnd(_, _)
StringEnd(s, i) ==
    IF i > Len(s) \/ s[i] = INVALID THEN 0
    ELSE IF s[i] = "\"" THEN i + 1
    ELSE IF s[i] = "\\" THEN StringEnd(s, i + 2)
    ELSE StringEnd(s, i + 1)

ScanFail == <<FALSE, <<>>, 0>>
Closing(isObject) == IF isObject THEN "}" ELSE "]"
NumberEndChecked(s, i, end) == IF IsJsonNumber(SubSeq(s, i, end - 1)) THEN end ELSE 0
\* ValueEnd: the index after the value that starts at s[i], 0 on a syntax
\* error.  ScanSeq: the members of a container from s[i] on, as
\* <<ok, <<key, first, last>> per member, index after the closing bracket>>;
\* ScanKey .. ScanNext are its steps: key, colon, value, separator.
RECURSIVE ValueEnd(_, _), ScanSeq(_, _, _, _, _), ScanKey(_, _, _, _), ScanColon(_, _, _, _)
RECURSIVE ScanMember(_, _, _, _, _, _), ScanNext(_, _, _, _)
ValueEnd(s, i) ==
    LET c == At(s, i) IN
    IF c = "{" THEN ScanSeq(s, SkipWs(s, i + 1), TRUE, <<>>, TRUE)[3]
    ELSE IF c = "[" THEN ScanSeq(s, SkipWs(s, i + 1), FALSE, <<>>, TRUE)[3]
    ELSE IF c = "\"" THEN StringEnd(s, i + 1)
    ELSE IF c = "t" THEN (IF MatchesAt(s, i, <<"t", "r", "u", "e">>) THEN i + 4 ELSE 0)
    ELSE IF c = "f" THEN (IF MatchesAt(s, i, <<"f", "a", "l", "s", "e">>) THEN i + 5 ELSE 0)
    ELSE IF c = "n" THEN (IF MatchesAt(s, i, <<"n", "u", "l", "l">>) THEN i + 4 ELSE 0)
    ELSE IF c = "-" \/ IsDigit(c) THEN NumberEndChecked(s, i, NumberEnd(s, i))
    ELSE 0
ScanSeq(s, i, isObject, acc, mayClose) ==
    IF mayClose /\ At(s, i) = Closing(isObject) THEN <<TRUE, acc, i + 1>>
    ELSE IF ~isObject THEN ScanMember(s, <<>>, i, ValueEnd(s, i), FALSE, acc)
    ELSE IF At(s, i) # "\"" THEN ScanFail
    ELSE ScanKey(s, i, StringEnd(s, i + 1), acc)
ScanKey(s, i, keyEnd, acc) ==
    IF keyEnd = 0 THEN ScanFail
    ELSE ScanColon(s, SubSeq(s, i + 1, keyEnd - 2), SkipWs(s, keyEnd), acc)
ScanColon(s, key, colon, acc) ==
    IF At(s, colon) # ":" THEN ScanFail
    ELSE ScanMember(s, key, SkipWs(s, colon + 1), ValueEnd(s, SkipWs(s, colon + 1)), TRUE, acc)
ScanMember(s, key, first, end, isObject, acc) ==
    IF end = 0 THEN ScanFail
    ELSE ScanNext(s, SkipWs(s, end), isObject, Append(acc, <<key, first, end - 1>>))
ScanNext(s, next, isObject, acc) ==
    IF At(s, next) = "," THEN ScanSeq(s, SkipWs(s, next + 1), isObject, acc, FALSE)
    ELSE IF At(s, next) = Closing(isObject) THEN <<TRUE, acc, next + 1>>
    ELSE ScanFail

\* serde_json::from_str::<&RawValue>: the text of the one value of the
\* input, surrounding whitespace excluded; None on a syntax error or on
\* trailing characters
RawValueSpan(s, first, end) ==
    IF end = 0 \/ SkipWs(s, end) # Len(s) + 1 THEN <<"none", <<>>>>
    ELSE Some(SubSeq(s, first, end - 1))
FromStrRawValue(s) == RawValueSpan(s, SkipWs(s, 1), ValueEnd(s, SkipWs(s, 1)))
\* serde_json::from_str::<Vec<&RawValue>> / <.. Map<String, &RawValue>> of
\* a container's raw text: <<key, raw text>> per member in source order
SpanTexts(raw, spans) == [i \in 1..Len(spans) |-> <<spans[i][1], SubSeq(raw, spans[i][2], spans[i][3])>>]
RawMembers(raw) == SpanTexts(raw, ScanSeq(raw, SkipWs(raw, 2), raw[1] = "{", <<>>, TRUE)[2])
\* the characters of a string literal's raw text, escapes resolved
RECURSIVE Unescape(_)
Unescape(t) ==
    IF t = <<>> THEN <<>>
    ELSE IF t[1] = "\\" THEN <<t[2]>> \o Unescape(SubSeq(t, 3, Len(t)))
    ELSE <<t[1]>> \o Unescape(Tail(t))
StringOf(raw) == Unescape(SubSeq(raw, 2, Len(raw) - 1))
\* object keys are numbered in lexical order
KeyNames == <<"a", "b">>
KeyId(chars) == CHOOSE k \in 1..Len(KeyNames) : chars = <<KeyNames[k]>>

\* ------------------------------------------------------------------------
\* JSON numbers as serde_json reads them.
\* ------------------------------------------------------------------------
\* serde_json::Number of a number token: PosInt(u64), NegInt(i64) or
\* Float(f64); a token beyond f64 is the error "number out of range"
JsonNumber(t) ==
    LET neg == t[1] = "-"
        body == IF neg THEN Tail(t) ELSE t
        e == IndexOf(body, {"e", "E"})
        mantissa == SubSeq(body, 1, e - 1)
        expo == SubSeq(body, e + 1, Len(body))
        x == IF expo = <<>> THEN 0
             ELSE IF expo[1] = "-" THEN -DigitsVal(Tail(expo))
             ELSE IF expo[1] = "+" THEN DigitsVal(Tail(expo))
             ELSE DigitsVal(expo)
        dot == IndexOf(mantissa, {"."})
        int == SubSeq(mantissa, 1, dot - 1)
        frac == SubSeq(mantissa, dot + 1, Len(mantissa))
        v == DigitsVal(int \o frac)
        p == x - Len(frac)
        f == IF p >= 0 THEN FRound(IF neg THEN 1 ELSE 0, v * Pow(10, p) * FloatQuantum, 1)
             ELSE FRound(IF neg THEN 1 ELSE 0, v * FloatQuantum, Pow(10, -p))
        float == IF FIsInf(f) THEN <<"OutOfRange", 0>> ELSE <<"Float", f>>
    IN IF Contains(t, {".", "e", "E"}) THEN float
       ELSE IF ~neg THEN (IF v <= U64_MAX THEN <<"PosInt", v>> ELSE float)
       ELSE IF v = 0 THEN float
       ELSE IF -v >= I64_MIN THEN <<"NegInt", -v>>
       ELSE float
\* `u as f64` of a u64
U64AsF64(u) == FRound(0, u * FloatQuantum, 1)

\* serde_json::Value
JNull == <<"Null", <<>>>>
JBool(b) == <<"Bool", b>>
JNumber(n) == <<"Number", n>>
JString(s) == <<"String", s>>
JArray(a) == <<"Array", a>>
JObject(o) == <<"Object", o>>
SerdeError(msg) == Err(<<"serde_json", msg>>)

\* ValueVisitor::visit_u64 / visit_i64 / visit_f64
visit_u64(value) ==
    IF value <= I64_MAX THEN Ok(Integer(value))
    ELSE LET converted_value == U64AsF64(value)
         IN IF FIsNan(converted_value) THEN SerdeError("invalid value") ELSE Ok(Float(converted_value))
visit_i64(value) == Ok(Integer(value))
visit_f64(value) == IF FIsNan(value) THEN SerdeError("invalid value") ELSE Ok(Float(value))
VisitNumber(t) ==
    LET n == JsonNumber(t) IN
    CASE n[1] = "PosInt" -> visit_u64(n[2])
      [] n[1] = "NegInt" -> visit_i64(n[2])
      [] n[1] = "Float" -> visit_f64(n[2])
      [] OTHER -> SerdeError("number out of range")

\* <Value as Deserialize>::deserialize on the raw text of one valid JSON
\* value: every member is visited, a map keeps the last entry of a key
RECURSIVE DeserializeValue(_), DeserializeMembers(_, _, _)
DeserializeValue(raw) ==
    LET c == raw[1] IN
    IF c = "{" THEN DeserializeMembers(RawMembers(raw), TRUE, <<>>)
    ELSE IF c = "[" THEN DeserializeMembers(RawMembers(raw), FALSE, <<>>)
    ELSE IF c = "\"" THEN Ok(Bytes(StringOf(raw)))
    ELSE IF c = "t" THEN Ok(Boolean(TRUE))
    ELSE IF c = "f" THEN Ok(Boolean(FALSE))
    ELSE IF c = "n" THEN Ok(Null)
    ELSE VisitNumber(raw)
DeserializeMembers(members, isObject, acc) ==
    IF members = <<>> THEN Ok(IF isObject THEN Object(acc) ELSE Array(acc))
    ELSE LET v == DeserializeValue(Head(members)[2])
         IN IF ~IsOk(v) THEN v
            ELSE DeserializeMembers(Tail(members), isObject,
                     IF isObject THEN MapInsert(acc, KeyId(Head(members)[1]), v[2])
                     ELSE Append(acc, v[2]))
\* serde_json::from_str::<Value> / from_slice::<Value>
FromStrValue(s) ==
    LET raw == FromStrRawValue(s)
    IN IF IsSome(raw) THEN DeserializeValue(Unwrap(raw)) ELSE SerdeError("syntax")

\* From<serde_json::Value> for Value
RECURSIVE FromJsonValue(_)
FromJsonValue(j) ==
    CASE j[1] = "Bool" -> Boolean(j[2])
      [] j[1] = "Number" ->
            IF j[2][1] = "NegInt" \/ (j[2][1] = "PosInt" /\ j[2][2] <= I64_MAX) THEN Integer(j[2][2])
            ELSE IF j[2][1] = "Float" THEN Float(j[2][2])
            ELSE Bytes(NatToChars(j[2][2]))
      [] j[1] = "String" -> Bytes(j[2])
      [] j[1] = "Object" -> Object([i \in 1..Len(j[2]) |-> <<j[2][i][1], FromJsonValue(j[2][i][2])>>])
      [] j[1] = "Array" -> Array([i \in 1..Len(j[2]) |-> FromJsonValue(j[2][i])])
      [] j[1] = "Null" -> Null

\* TryFrom<&RawValue> for Value
\* parse_number reading what is not an i64 the way the standard path does
parse_number_via_f64(raw) ==
    IF ~Contains(raw, {".", "e", "E"}) /\ IsSome(ParseI64(raw))
    THEN Ok(Integer(Unwrap(ParseI64(raw))))
    ELSE VisitNumber(raw)
parse_number(raw) ==
    IF ~Contains(raw, {".", "e", "E"}) /\ IsSome(ParseI64(raw))
    THEN Ok(Integer(Unwrap(ParseI64(raw))))
    ELSE LET d == ParseDecimal(raw)
         IN IF IsSome(d) THEN Ok(Decimal(Unwrap(d))) ELSE SerdeError("failed to parse number")
\* the raw members as the BTreeMap<String, &RawValue> / Vec<&RawValue> holds them
KeyedMembers(members, isObject) ==
    IF isObject
    THEN CollectObjectMap(<<>>, [i \in 1..Len(members) |-> <<KeyId(members[i][1]), members[i][2]>>])
    ELSE [i \in 1..Len(members) |-> <<0, members[i][2]>>]
MembersOf(raw) == KeyedMembers(RawMembers(raw), raw[1] = "{")
RECURSIVE try_from_raw_value(_), try_from_members(_, _, _)
try_from_raw_value(raw) ==
    LET c == raw[1] IN
    IF c = "{" THEN try_from_members(MembersOf(raw), TRUE, <<>>)
    ELSE IF c = "[" THEN try_from_members(MembersOf(raw), FALSE, <<>>)
    ELSE IF c = "\"" THEN Ok(Bytes(StringOf(raw)))
    ELSE IF c = "t" \/ c = "f" THEN Ok(Boolean(c = "t"))
    ELSE IF c = "n" THEN Ok(Null)
    ELSE parse_number(raw)
try_from_members(members, isObject, acc) ==
    IF members = <<>> THEN Ok(IF isObject THEN Object(acc) ELSE Array(acc))
    ELSE LET v == try_from_raw_value(Head(members)[2])
         IN IF ~IsOk(v) THEN v
            ELSE try_from_members(Tail(members), isObject,
                     Append(acc, IF isObject THEN <<Head(members)[1], v[2]>> ELSE v[2]))

\* ------------------------------------------------------------------------
\* stdlib parse_json.
\* ------------------------------------------------------------------------
MAX_DEPTH == 128
U8_MAX == 255
NoArg == <<"none", <<>>>>
\* StripBomFromUTF8::strip_bom
strip_bom(s) == IF s # <<>> /\ s[1] = BOM THEN Tail(s) ELSE s
\* Value::try_bytes and Value::try_bytes_utf8_lossy
try_bytes(v) == IF is_bytes(v) THEN Ok(v[2]) ELSE Err(Expected("bytes", kind(v)))
Utf8Lossy(s) == [i \in 1..Len(s) |-> IF s[i] = INVALID THEN REPLACEMENT ELSE s[i]]
try_bytes_utf8_lossy(v) == IF is_bytes(v) THEN Ok(Utf8Lossy(v[2])) ELSE Err(Expected("bytes", kind(v)))
\* lossy.map(Value::try_boolean).transpose()?.unwrap_or(true)
LossyFlag(l) ==
    IF ~IsSome(l) THEN Ok(TRUE)
    ELSE IF kind(Unwrap(l)) = "boolean" THEN Ok(Unwrap(l) = Boolean(TRUE))
    ELSE Err(Expected("boolean", kind(Unwrap(l))))
Wrapped(msg, e) == Err(<<msg, e[2]>>)

parse_json(value, l) ==
    LET flag == LossyFlag(l)
        bytes == IF flag[2] THEN try_bytes_utf8_lossy(value) ELSE try_bytes(value)
        parsed == FromStrValue(strip_bom(bytes[2]))
    IN IF ~IsOk(flag) THEN flag
       ELSE IF ~IsOk(bytes) THEN bytes
       ELSE IF ~IsOk(parsed) THEN Wrapped("unable to parse json", parsed)
       ELSE parsed

parse_json_precision(value, l) ==
    LET flag == LossyFlag(l)
        bytes == IF flag[2] THEN try_bytes_utf8_lossy(value) ELSE try_bytes(value)
        raw_value == FromStrRawValue(strip_bom(bytes[2]))
        parsed == try_from_raw_value(Unwrap(raw_value))
    IN IF ~IsOk(flag) THEN flag
       ELSE IF ~IsOk(bytes) THEN bytes
       ELSE IF ~IsSome(raw_value) THEN Wrapped("unable to parse json", SerdeError("syntax"))
       ELSE IF ~IsOk(parsed) THEN Wrapped("unable to parse json", parsed)
       ELSE parsed

\* serde_json::from_str::<serde_json::Value> of a scalar's raw text
FromStrJsonScalar(raw) ==
    LET c == raw[1] IN
    IF c = "\"" THEN Ok(JString(StringOf(raw)))
    ELSE IF c = "t" THEN Ok(JBool(TRUE))
    ELSE IF c = "f" THEN Ok(JBool(FALSE))
    ELSE IF c = "n" THEN Ok(JNull)
    ELSE LET n == JsonNumber(raw)
         IN IF n[1] = "OutOfRange" THEN SerdeError("number out of range") ELSE Ok(JNumber(n))

RECURSIVE parse_layer(_, _), parse_layer_members(_, _, _, _)
parse_layer(raw_value, remaining_depth) ==
    IF raw_value[1] = "{"
    THEN IF remaining_depth = 0 THEN Ok(JString(raw_value))
         ELSE parse_layer_members(MembersOf(raw_value), remaining_depth - 1, TRUE, <<>>)
    ELSE IF raw_value[1] = "["
    THEN IF remaining_depth = 0 THEN Ok(JString(raw_value))
         ELSE parse_layer_members(MembersOf(raw_value), remaining_depth - 1, FALSE, <<>>)
    ELSE FromStrJsonScalar(raw_value)
parse_layer_members(members, remaining_depth, isObject, acc) ==
    IF members = <<>> THEN Ok(IF isObject THEN JObject(acc) ELSE JArray(acc))
    ELSE LET v == parse_layer(Head(members)[2], remaining_depth)
         IN IF ~IsOk(v) THEN v
            ELSE parse_layer_members(Tail(members), remaining_depth, isObject,
                     Append(acc, IF isObject THEN <<Head(members)[1], v[2]>> ELSE v[2]))

validate_depth(value) ==
    IF ~is_integer(value) THEN Err(Expected("integer", kind(value)))
    ELSE IF value[2] < 0 \/ value[2] > U8_MAX
    THEN Err(<<"out of range integral type conversion attempted">>)
    ELSE IF value[2] >= 1 /\ value[2] <= MAX_DEPTH THEN Ok(value[2])
    ELSE Err(<<"max_depth value should be greater than 0 and less than 128, got", value[2]>>)

parse_json_with_depth(value, max_depth, l) ==
    LET parsed_depth == validate_depth(max_depth)
        flag == LossyFlag(l)
        bytes == IF flag[2] THEN try_bytes_utf8_lossy(value) ELSE try_bytes(value)
        raw_value == FromStrRawValue(bytes[2])
        res == parse_layer(Unwrap(raw_value), parsed_depth[2])
    IN IF ~IsOk(parsed_depth) THEN parsed_depth
       ELSE IF ~IsOk(flag) THEN flag
       ELSE IF ~IsOk(bytes) THEN bytes
       ELSE IF ~IsSome(raw_value) THEN Wrapped("unable to read json", SerdeError("syntax"))
       ELSE IF ~IsOk(res) THEN Wrapped("unable to parse json with max depth", res)
       ELSE Ok(FromJsonValue(res[2]))

\* ParseJson::compile: the function expression chosen from the optional
\* arguments that are present
compile(max_depth, ap) ==
    IF IsSome(max_depth) THEN "ParseJsonMaxDepthFn"
    ELSE IF IsSome(ap) THEN "ParseJsonPrecisionFn"
    ELSE "ParseJsonFn"
\* Value::try_boolean
try_boolean(v) == IF kind(v) = "boolean" THEN Ok(v[2] = 1) ELSE Err(Expected("boolean", kind(v)))
\* ParseJsonPrecisionFn::resolve
resolve_precision(value, l, ap) ==
    IF ~IsOk(try_boolean(ap)) THEN try_boolean(ap)
    ELSE IF try_boolean(ap)[2] THEN parse_json_precision(value, l)
    ELSE parse_json(value, l)

\* ------------------------------------------------------------------------
\* Serialize: serde_json::to_string(&Value).
\* ------------------------------------------------------------------------
\* serde_json's f64 writer: the shortest digits, `null` for an infinity
F64ToChars(f) ==
    IF f[2] # "fin" THEN <<"n", "u", "l", "l">>
    ELSE LET digits == FloatFracBits
             frac == ((f[3] % FloatQuantum) * Pow(10, digits)) \div FloatQuantum
             RECURSIVE TrimZeros(_)
             TrimZeros(t) == IF Len(t) > 1 /\ t[Len(t)] = "0" THEN TrimZeros(SubSeq(t, 1, Len(t) - 1)) ELSE t
             body == NatToChars(f[3] \div FloatQuantum) \o <<".">> \o TrimZeros(NatToCharsPadded(frac, digits))
         IN IF f[1] = 1 THEN <<"-">> \o body ELSE body
\* a JSON string literal
RECURSIVE Escape(_)
Escape(t) ==
    IF t = <<>> THEN <<>>
    ELSE IF t[1] \in {"\"", "\\"} THEN <<"\\", t[1]>> \o Escape(Tail(t))
    ELSE <<t[1]>> \o Escape(Tail(t))
Quoted(t) == <<"\"">> \o Escape(t) \o <<"\"">>
\* timestamp_to_string
timestamp_to_string(ts) == <<"T">> \o NatToChars(ts)

\* the Decimal arm writing the Decimal as the nearest f64
serialize_decimal_via_f64(d) ==
    F64ToChars(FRound(IF d[1] < 0 THEN 1 ELSE 0, Abs(d[1]) * FloatQuantum, Pow(10, d[2])))
\* the Decimal arm writing every Decimal through its string form
serialize_decimal_always_raw(d) == DecimalToChars(d)
serialize_decimal(d) ==
    IF DecFractIsZero(d) /\ IsSome(DecTryIntoI64(d))
    THEN I64ToChars(Unwrap(DecTryIntoI64(d)))
    ELSE DecimalToChars(d)
RECURSIVE serialize(_), serialize_seq(_, _, _)
serialize(v) ==
    CASE kind(v) = "integer" -> I64ToChars(v[2])
      [] kind(v) = "float" -> F64ToChars(v[2])
      [] kind(v) = "decimal" -> serialize_decimal(v[2])
      [] kind(v) = "boolean" -> IF v[2] = 1 THEN <<"t", "r", "u", "e">> ELSE <<"f", "a", "l", "s", "e">>
      [] kind(v) = "bytes" -> Quoted(Utf8Lossy(v[2]))
      [] kind(v) = "timestamp" -> Quoted(timestamp_to_string(v[2]))
      [] kind(v) = "regex" -> Quoted(v[2])
      [] kind(v) = "object" -> <<"{">> \o serialize_seq(v[2], TRUE, 1) \o <<"}">>
      [] kind(v) = "array" -> <<"[">> \o serialize_seq(v[2], FALSE, 1) \o <<"]">>
      [] kind(v) = "null" -> <<"n", "u", "l", "l">>
serialize_seq(members, isObject, i) ==
    IF i > Len(members) THEN <<>>
    ELSE (IF i > 1 THEN <<",">> ELSE <<>>)
         \o (IF isObject
             THEN Quoted(<<KeyNames[members[i][1]]>>) \o <<":">> \o serialize(members[i][2])
             ELSE serialize(members[i]))
         \o serialize_seq(members, isObject, i + 1)
\* serde_json::from_str::<Box<RawValue>> followed by Value::try_from
parse_raw(s) ==
    LET raw == FromStrRawValue(s)
    IN IF IsSome(raw) THEN try_from_raw_value(Unwrap(raw)) ELSE SerdeError("syntax")

\* ------------------------------------------------------------------------
\* Value::parse_numeric.
\* ------------------------------------------------------------------------
\* str::from_utf8 fails on an invalid byte
IsUtf8(b) == ~Contains(b, {INVALID})
\* str::trim
RECURSIVE TrimStart(_), TrimEnd(_)
TrimStart(s) == IF s # <<>> /\ s[1] = WS THEN TrimStart(Tail(s)) ELSE s
TrimEnd(s) == IF s # <<>> /\ s[Len(s)] = WS THEN TrimEnd(SubSeq(s, 1, Len(s) - 1)) ELSE s
Trim(s) == TrimEnd(TrimStart(s))
\* str::parse::<f64>: an optional sign, then inf, infinity or nan (spelled in
\* lower case here), or digits with at most one '.' and an optional
\* exponent; a magnitude beyond f64::MAX is an infinity.  None on any other
\* text.
ParseF64(t) ==
    LET signed == t # <<>> /\ t[1] \in {"-", "+"}
        sg == IF signed /\ t[1] = "-" THEN 1 ELSE 0
        body == IF signed THEN Tail(t) ELSE t
        e == IndexOf(body, {"e", "E"})
        mantissa == SubSeq(body, 1, e - 1)
        expo == SubSeq(body, e + 1, Len(body))
        esigned == expo # <<>> /\ expo[1] \in {"-", "+"}
        edigits == IF esigned THEN Tail(expo) ELSE expo
        x == IF esigned /\ expo[1] = "-" THEN -DigitsVal(edigits) ELSE DigitsVal(edigits)
        dot == IndexOf(mantissa, {"."})
        int == SubSeq(mantissa, 1, dot - 1)
        frac == SubSeq(mantissa, dot + 1, Len(mantissa))
        p == x - Len(frac)
        v == DigitsVal(int \o frac)
    IN IF body \in {<<"i", "n", "f">>, <<"i", "n", "f", "i", "n", "i", "t", "y">>} THEN Some(FInf(sg))
       ELSE IF body = <<"n", "a", "n">> THEN Some(F_NAN)
       ELSE IF int \o frac = <<>> \/ ~AllDigits(int \o frac) THEN NONE
       ELSE IF e <= Len(body) /\ (edigits = <<>> \/ ~AllDigits(edigits)) THEN NONE
       ELSE IF p >= 0 THEN Some(FRound(sg, v * Pow(10, p) * FloatQuantum, 1))
       ELSE Some(FRound(sg, v * FloatQuantum, Pow(10, -p)))

\* the Bytes arm of parse_numeric
parse_numeric_bytes_first_token(self, use_decimal) ==
    LET s == Trim(self[2])
        dominated_by_numbers == s # <<>> /\ (IsDigit(s[1]) \/ s[1] \in {"-", "+", "."})
        token == Bytes(SubSeq(s, 1, IndexOf(s, {WS}) - 1))
    IN IF ~IsUtf8(self[2]) THEN self
       ELSE IF ~dominated_by_numbers THEN self
       ELSE IF ~Contains(s, {"."}) /\ IsSome(ParseI64(s)) THEN Integer(Unwrap(ParseI64(s)))
       ELSE IF use_decimal
       THEN (IF IsSome(ParseDecimal(s)) THEN Decimal(Unwrap(ParseDecimal(s))) ELSE token)
       ELSE (IF IsSome(ParseF64(s)) /\ ~FIsNan(Unwrap(ParseF64(s)))
             THEN Float(Unwrap(ParseF64(s))) ELSE token)
parse_numeric_bytes(self, use_decimal) ==
    LET s == Trim(self[2])
        dominated_by_numbers == s # <<>> /\ (IsDigit(s[1]) \/ s[1] \in {"-", "+", "."})
    IN IF ~IsUtf8(self[2]) THEN self
       ELSE IF ~dominated_by_numbers THEN self
       ELSE IF ~Contains(s, {"."}) /\ IsSome(ParseI64(s)) THEN Integer(Unwrap(ParseI64(s)))
       ELSE IF use_decimal
       THEN (IF IsSome(ParseDecimal(s)) THEN Decimal(Unwrap(ParseDecimal(s))) ELSE self)
       ELSE (IF IsSome(ParseF64(s)) /\ ~FIsNan(Unwrap(ParseF64(s)))
             THEN Float(Unwrap(ParseF64(s))) ELSE self)
RECURSIVE parse_numeric(_, _)
parse_numeric(self, use_decimal) ==
    CASE kind(self) = "bytes" -> parse_numeric_bytes(self, use_decimal)
      [] kind(self) = "array" ->
            Array([i \in 1..Len(self[2]) |-> parse_numeric(self[2][i], use_decimal)])
      [] kind(self) = "object" ->
            Object([i \in 1..Len(self[2]) |-> <<self[2][i][1], parse_numeric(self[2][i][2], use_decimal)>>])
      [] OTHER -> self

\* ------------------------------------------------------------------------
\* TypeDef: the set of kinds an expression can produce, the kinds of the
\* elements of its arrays and objects, and whether it can fail.
\* ------------------------------------------------------------------------
TypeDef(k, e, f) == [kind |-> k, elems |-> e, fallible |-> f]
NEVER == {}
TypeDefOf(k) == TypeDef({k}, {}, FALSE)
WithFallible(td, f) == [td EXCEPT !.fallible = f]
OrKind(td, k) == [td EXCEPT !.kind = td.kind \cup {k}]
WithKind(td, k) == [td EXCEPT !.kind = k, !.elems = {}]
TypeDefUnion(a, b) == TypeDef(a.kind \cup b.kind, a.elems \cup b.elems, a.fallible \/ b.fallible)
\* TypeDef::is_bytes and the like: the kind is exactly the one named
IsExactly(td, k) == td.kind = {k}
\* a Value is within a TypeDef's kind: its kind is in the set, and so are
\* the kinds of the elements of an array or object
KindContains(td, v) ==
    /\ kind(v) \in td.kind
    /\ kind(v) = "array" => \A i \in 1..Len(v[2]) : kind(v[2][i]) \in td.elems
    /\ kind(v) = "object" => \A i \in 1..Len(v[2]) : kind(v[2][i][2]) \in td.elems

\* ------------------------------------------------------------------------
\* stdlib mod.
\* ------------------------------------------------------------------------
\* f64::is_normal: neither zero, infinite nor NaN (the scaled format has no
\* subnormal numbers)
FIsNormal(f) == f[2] = "fin" /\ f[3] # 0
AnyNumberFallible == TypeDef({"float", "integer", "decimal"}, {}, TRUE)
\* ModFn::type_def with the exact-kind tests replaced by containment
mod_type_def_contains(value_def, modulus_def, constant) ==
    IF \/ "decimal" \in value_def.kind /\ "float" \in modulus_def.kind
       \/ "float" \in value_def.kind /\ "decimal" \in modulus_def.kind
    THEN WithKind(TypeDefUnion(WithFallible(value_def, TRUE), WithFallible(modulus_def, TRUE)), NEVER)
    ELSE AnyNumberFallible
\* ModFn::type_def; constant is self.modulus.resolve_constant(state)
mod_type_def(value_def, modulus_def, constant) ==
    IF \/ IsExactly(value_def, "decimal") /\ IsExactly(modulus_def, "float")
       \/ IsExactly(value_def, "float") /\ IsExactly(modulus_def, "decimal")
    THEN WithKind(TypeDefUnion(WithFallible(value_def, TRUE), WithFallible(modulus_def, TRUE)), NEVER)
    ELSE IF IsSome(constant) /\ (is_float(Unwrap(constant)) \/ is_integer(Unwrap(constant))
                                 \/ is_decimal(Unwrap(constant)))
    THEN LET value == Unwrap(constant) IN
         CASE is_float(value) -> WithFallible(TypeDefOf("float"), ~FIsNormal(value[2]))
           [] is_integer(value) -> WithFallible(TypeDefOf("integer"), value[2] = 0)
           [] is_decimal(value) -> WithFallible(TypeDefOf("decimal"), DecIsZero(value[2]))
    ELSE AnyNumberFallible
\* fn mod
mod(value, modulus) == try_rem(value, modulus)

\* ------------------------------------------------------------------------
\* stdlib to_int, abs, floor and parse_tokens.
\* ------------------------------------------------------------------------
\* Conversion::Integer.convert: the bytes as text, parsed as an i64
ConvertInteger(b) ==
    LET parsed == ParseI64(Utf8Lossy(b))
    IN IF IsSome(parsed) THEN Ok(Integer(Unwrap(parsed)))
       ELSE Err(<<"IntParseError", Utf8Lossy(b)>>)

\* fn to_int(value)
to_int(value) ==
    CASE kind(value) = "integer" -> Ok(value)
      [] kind(value) = "float" -> Ok(Integer(F64AsI64(value[2])))
      [] kind(value) = "boolean" -> Ok(Integer(value[2]))
      [] kind(value) = "null" -> Ok(Integer(0))
      [] kind(value) = "bytes" -> ConvertInteger(value[2])
      [] kind(value) = "timestamp" -> Ok(Integer(value[2]))
      [] OTHER -> Err(<<"unable to coerce into integer", kind(value)>>)

\* ToIntFn::type_def
to_int_type_def(td) ==
    WithFallible(TypeDefOf("integer"),
                 td.kind \cap {"bytes", "array", "object", "regex"} # {})

\* fn abs(value): the outcomes a build can produce.  i64::abs overflows on
\* i64::MIN: a panic with overflow checks, i64::MIN itself without them.
abs(value) ==
    CASE kind(value) = "float" -> {Ok(from_f64_or_zero(<<0, value[2][2], value[2][3]>>))}
      [] kind(value) = "integer" ->
           IF value[2] = I64_MIN
           THEN {Panic("attempt to negate with overflow"), Ok(Integer(I64_MIN))}
           ELSE {Ok(Integer(Abs(value[2])))}
      [] kind(value) = "decimal" -> {Ok(Decimal(<<Abs(value[2][1]), value[2][2]>>))}
      [] OTHER -> {Err(Expected("float_integer_decimal", kind(value)))}

\* f64::floor
FFloor(f) ==
    IF f[2] # "fin" THEN f
    ELSE LET n == (FNum(f) \div FloatQuantum) * FloatQuantum
         IN <<f[1], "fin", Abs(n)>>
\* Decimal::floor: the largest whole Decimal not above d, at scale 0
DecFloor(d) == <<d[1] \div Pow(10, d[2]), 0>>
\* util::round_to_precision(value, precision, fn)
round_to_precision(f, precision) ==
    LET multiplier == I64AsF64(Pow(10, precision))
    IN FDiv(FFloor(FMul(f, multiplier)), multiplier)

\* fn floor(precision, value)
floor(precision, value) ==
    LET p == IF IsSome(precision) THEN precision[2][2] ELSE 0
    IN IF IsSome(precision) /\ kind(precision[2]) # "integer"
       THEN Err(Expected("integer", kind(precision[2])))
       ELSE CASE kind(value) = "float" -> Ok(from_f64_or_zero(round_to_precision(value[2], p)))
              [] kind(value) = "integer" -> Ok(value)
              [] kind(value) = "decimal" -> Ok(Decimal(DecFloor(value[2])))
              [] OTHER -> Err(Expected("float_integer_decimal", kind(value)))

\* the first position from i on that holds one of cs, or one past the end
RECURSIVE NextIn(_, _, _)
NextIn(s, i, cs) ==
    IF i > Len(s) \/ s[i] \in cs THEN i ELSE NextIn(s, i + 1, cs)

\* tokenize::parse: tokens are separated by spaces; a token that opens with
\* a quote runs to the closing quote and is the text between the two
RECURSIVE TokenizeFrom(_, _, _)
TokenizeTo(s, first, last, next, acc) ==
    TokenizeFrom(s, next, Append(acc, SubSeq(s, first, last)))
TokenizeFrom(s, i, acc) ==
    IF i > Len(s) THEN acc
    ELSE IF s[i] = WS THEN TokenizeFrom(s, i + 1, acc)
    ELSE IF s[i] = "\""
    THEN TokenizeTo(s, i + 1, NextIn(s, i + 1, {"\""}) - 1, NextIn(s, i + 1, {"\""}) + 1, acc)
    ELSE TokenizeTo(s, i, NextIn(s, i, {WS}) - 1, NextIn(s, i, {WS}), acc)
tokenize_parse(s) == TokenizeFrom(s, 1, <<>>)

\* fn parse_tokens(value)
TokenValue(token) == IF token \in {<<>>, <<"-">>} THEN Null ELSE Bytes(token)
parse_tokens(value) ==
    LET string == try_bytes_utf8_lossy(value)
    IN IF string[1] = "err" THEN string
       ELSE LET tokens == tokenize_parse(string[2])
            IN Ok(Array([i \in 1..Len(tokens) |-> TokenValue(tokens[i])]))

\* ParseTokensFn::type_def
parse_tokens_type_def == TypeDef({"array"}, {"bytes"}, FALSE)

\* ParseNumericFn::type_def
parse_numeric_type_def(td) ==
    IF IsExactly(td, "bytes")
    THEN TypeDef({"integer", "decimal", "float", "bytes"}, {}, FALSE)
    ELSE IF IsExactly(td, "array") \/ IsExactly(td, "object")
    THEN OrKind(OrKind(OrKind(td, "integer"), "decimal"), "float")
    ELSE td

\* ------------------------------------------------------------------------
\* The values the operators are applied to.
\* ------------------------------------------------------------------------
Integers64 == {Integer(i) : i \in I64_MIN..I64_MAX}
F64_INFINITY == FInf(0)
F64_NEG_INFINITY == FInf(1)
FiniteFloats == {<<sg, "fin", k>> : sg \in {0, 1}, k \in FloatMags}
\* NotNan<f64>: every f64 but NaN
Floats == {Float(f) : f \in FiniteFloats \cup {F64_INFINITY, F64_NEG_INFINITY}}
Decimals == {Decimal(<<m, s>>) : m \in (-DecMaxMant)..DecMaxMant, s \in 0..DecMaxScale}
ByteStrings == {<<>>} \cup {<<a>> : a \in 1..MaxByte} \cup {<<a, b>> : a, b \in 1..MaxByte}
\* object keys are numbered in lexical order
Keys == {1, 2}
FieldValues ==
    {Integer(1), Integer(2), Object(<< <<1, Integer(1)>> >>), Object(<< <<2, Integer(2)>> >>)}
Objects ==
    {Object(<<>>)}
    \cup {Object(<< <<k, v>> >>) : k \in Keys, v \in FieldValues}
    \cup {Object(<< <<1, v>>, <<2, w>> >>) : v, w \in FieldValues}

ArithValues ==
    Integers64 \cup Floats \cup Decimals
    \cup {Null, Boolean(TRUE), Bytes(<<>>), Bytes(<<1, 2>>)}
StructValues ==
    {Null, Boolean(TRUE), Boolean(FALSE), Integer(0), Integer(1), Float(FZero(0)),
     Decimal(DEC_ZERO), Timestamp(0), Timestamp(1), Regex(<<1>>),
     Array(<<>>), Array(<<Integer(1)>>)}
    \cup {Bytes(b) : b \in ByteStrings} \cup Objects

\* JSON texts.  Numeric tokens around every boundary of i64, u64 and Decimal:
IntTexts ==
    {I64ToChars(n) : n \in (I64_MIN - 2)..(U64_MAX + 2)}
    \cup {NatToChars(DecMaxMant), NatToChars(DecMaxMant + 1), <<"-", "0">>}
DecimalTexts ==
    {DecimalToChars(<<m, 1>>) : m \in (-(DecMaxMant + 2))..(DecMaxMant + 2)}
    \cup {DecimalToChars(<<m, 1>>) : m \in {10 * DecMaxMant + 4, 10 * DecMaxMant + 5}}
    \cup {DecimalToChars(<<m, DecMaxScale + 1>>) : m \in {4, 5, 10, 15}}
    \cup {<<"-", "0", ".", "0">>}
ExponentTexts ==
    {<<"1", "e", "2">>, <<"1", "E", "2">>, <<"5", "e", "-", "3">>, <<"1", "e", "0">>,
     <<"1", ".", "5", "e", "1">>}
NumberTexts == IntTexts \cup DecimalTexts \cup ExponentTexts
\* documents: scalars, and containers nested up to three levels deep, with
\* whitespace, both key orders and a repeated key
Arr1(x) == <<"[">> \o x \o <<"]">>
Arr2(x, y) == <<"[">> \o x \o <<",", WS>> \o y \o <<WS, "]">>
Obj1(k, x) == <<"{", "\"", k, "\"", ":">> \o x \o <<"}">>
Obj2(k, x, j, y) == <<"{", "\"", k, "\"", ":", WS>> \o x \o <<",", "\"", j, "\"", ":">> \o y \o <<"}">>
One == <<"1">>
Leaves ==
    {One, NatToChars(I64_MAX + 1), <<"1", ".", "5">>, <<"\"", "a", "\"">>,
     <<"t", "r", "u", "e">>, <<"n", "u", "l", "l">>}
Level1 ==
    {<<"[", "]">>, <<"{", "}">>, <<"{", WS, "}">>}
    \cup {Arr1(x) : x \in Leaves} \cup {Arr2(x, One) : x \in Leaves}
    \cup {Obj1("a", x) : x \in Leaves} \cup {Obj2("b", x, "a", One) : x \in Leaves}
    \cup {Obj2("a", x, "a", One) : x \in Leaves}
Level1Few ==
    {<<"[", "]">>, Arr1(One), Arr2(NatToChars(I64_MAX + 1), One), Obj1("a", One),
     Obj2("b", <<"\"", "a", "\"">>, "a", One), Obj2("a", <<"1", "e", "1">>, "a", One)}
Level2 ==
    {Arr1(c) : c \in Level1Few} \cup {Arr2(One, c) : c \in Level1Few}
    \cup {Obj1("a", c) : c \in Level1Few} \cup {Obj2("b", c, "a", One) : c \in Level1Few}
Level3 ==
    {Arr1(Arr1(c)) : c \in Level1Few} \cup {Obj1("b", Arr2(One, c)) : c \in Level1Few}
    \cup {Arr1(Obj1("a", c)) : c \in Level1Few}
Malformed == {<<"{">>, <<"{", "\"", "a", "\"", ":", "\"", "a">>, <<"[", "1", ",", "]">>}
Documents ==
    NumberTexts \cup Leaves \cup Level1 \cup Level2 \cup Level3 \cup Malformed
    \cup {<<"\"", INVALID, "\"">>, <<WS>> \o Arr1(One) \o <<WS>>}
JsonInputs == Documents \cup {<<BOM>> \o t : t \in Documents}
\* max_depth arguments around every boundary of validate_depth
DepthArgs == {Integer(n) : n \in {-1, 0, 1, 2, 3, MAX_DEPTH, MAX_DEPTH + 1, U8_MAX, U8_MAX + 1}}
LossyArgs == {NoArg, Some(Boolean(TRUE)), Some(Boolean(FALSE))}
\* Values to serialize: Decimals alone and nested in arrays and objects
NestedDecimals == {d \in Decimals : Abs(d[2][1]) <= 12}
SerdeValues ==
    Decimals
    \cup {Array(<<Integer(1), d, Null>>) : d \in NestedDecimals}
    \cup {Object(<< <<1, d>>, <<2, Integer(3)>> >>) : d \in NestedDecimals}
    \cup {Array(<<Object(<< <<2, Array(<<d, Bytes(<<"a">>)>>)>> >>)>>) : d \in NestedDecimals}
    \cup {Integer(1), Boolean(TRUE), Null, Bytes(<<"a">>), Timestamp(1), Regex(<<"a">>),
          Float(I64AsF64(1)), Float(F64_INFINITY), Array(<<>>), Object(<<>>)}

\* texts for parse_numeric: integers around the i64 bounds, signs, points,
\* exponents, infinities, surrounding whitespace, an invalid byte, and text
\* that is no number
NumericTexts ==
    {I64ToChars(n) : n \in {I64_MIN - 1, I64_MIN, -1, 0, 1, I64_MAX, I64_MAX + 1}}
    \cup {<<"+", "1">>, <<"1", ".", "5">>, <<"-", "1", ".", "5">>, <<".", "5">>, <<"2", ".", "0">>,
          <<"0", ".", "0", "5">>, <<"1", "e", "1">>, <<"1", "e", "2">>, <<"1", ".", "5", "e", "1">>,
          <<"-", "i", "n", "f">>, <<"+", "i", "n", "f">>, <<"i", "n", "f">>, <<"-", "n", "a", "n">>,
          <<"a">>, <<"-">>, <<".">>, <<"-", "a">>, <<>>, <<WS>>,
          <<WS, "1", WS>>, <<WS, "1", ".", "5">>, <<"1", WS, "5">>, <<WS, "a">>,
          <<INVALID>>, <<"1", INVALID>>}
NumericLeaves ==
    {Bytes(t) : t \in NumericTexts}
    \cup {Null, Boolean(TRUE), Integer(1), Float(I64AsF64(1)), Decimal(<<15, 1>>), Timestamp(1),
          Regex(<<"1">>)}
NumericFew ==
    {Bytes(<<"1">>), Bytes(<<"1", ".", "5">>), Bytes(<<"a">>), Bytes(<<WS, "1", WS>>),
     Bytes(<<"-", "i", "n", "f">>), Integer(1), Null}
NumericValues ==
    NumericLeaves
    \cup {Array(<<>>), Object(<<>>)}
    \cup {Array(<<x>>) : x \in NumericLeaves}
    \cup {Array(<<x, y>>) : x, y \in NumericFew}
    \cup {Object(<< <<1, x>> >>) : x \in NumericFew}
    \cup {Object(<< <<1, x>>, <<2, y>> >>) : x, y \in NumericFew}
    \cup {Array(<<Object(<< <<2, x>> >>), Array(<<x>>)>>) : x \in NumericFew}

\* operands of mod: the zeros, the bounds and ordinary values of each kind
ModValues ==
    {Integer(i) : i \in {I64_MIN, -1, 0, 1, 2, I64_MAX}}
    \cup {Float(f) : f \in {FZero(0), FZero(1), I64AsF64(1), I64AsF64(2), <<0, "fin", 3>>,
                            F64_INFINITY, F64_NEG_INFINITY}}
    \cup {Decimal(d) : d \in {DEC_ZERO, <<0, 1>>, DEC_ONE, <<15, 1>>, <<2, 0>>, DEC_MAX}}
\* the static kinds the parameters of mod allow
NumberKinds == (SUBSET {"integer", "float", "decimal"}) \ {{}}
\* the TypeState of a mod call: the static kinds of both argument
\* expressions and whether the modulus is a literal
ModState(vk, mk, lit) == [value |-> TypeDef(vk, {}, FALSE), modulus |-> TypeDef(mk, {}, FALSE), literal |-> lit]

\* arguments of to_int, abs, floor and parse_tokens: every kind, the bounds
\* of the integers, fractions on both sides of zero, and the short texts
\* over a letter, a dash, a space and a quote
TokenChars == {"a", "-", WS, "\""}
TokenTexts == UNION {[1..n -> TokenChars] : n \in 0..3}
FnValues ==
    {Integer(i) : i \in I64_MIN..I64_MAX}
    \cup {Float(f) : f \in {FZero(0), FZero(1), <<0, "fin", 1>>, <<1, "fin", 1>>, <<0, "fin", 3>>,
                            <<1, "fin", 3>>, I64AsF64(2), <<0, "fin", (Pow(2, FloatPrecision) - 1) * Pow(2, FloatMaxExp)>>, F64_INFINITY, F64_NEG_INFINITY}}
    \cup {Decimal(d) : d \in {DEC_ZERO, <<15, 1>>, <<-15, 1>>, <<3, 0>>, <<-5, 1>>, <<10, 1>>, DEC_MAX}}
    \cup {Bytes(t) : t \in TokenTexts \cup {<<"1">>, <<"-", "8">>, <<"8">>, <<INVALID>>}}
    \cup {Null, Boolean(TRUE), Boolean(FALSE), Timestamp(1), Regex(<<"a">>),
          Array(<<Integer(1)>>), Object(<< <<1, Integer(1)>> >>)}
\* precision: absent, or an integer literal
PrecisionArgs == {NoArg, Some(Integer(0)), Some(Integer(1))}
\* the kinds of the elements of an array or of the fields of an object
ElemKinds(v) ==
    IF kind(v) = "array" THEN {kind(v[2][i]) : i \in 1..Len(v[2])}
    ELSE IF kind(v) = "object" THEN {kind(v[2][i][2]) : i \in 1..Len(v[2])}
    ELSE {}
\* the static TypeDefs an expression that evaluates to v can have: exactly
\* the kind of v, or a union of it with another kind
StaticDefs(v) == {TypeDef({kind(v)} \cup other, ElemKinds(v), FALSE) : other \in {{}, {"null"}}}

\* the TypeState of a call that has none
NoState == <<>>

VARIABLES lhs, rhs, pc, result, calls, lossy, arbitrary_precision, state
vars == <<lhs, rhs, pc, result, calls, lossy, arbitrary_precision, state>>

PENDING == <<"pending", <<>>>>

Init ==
    /\ lhs \in ArithValues
    /\ rhs \in ArithValues
    /\ pc = "ready"
    /\ result = PENDING
    /\ calls = 0
    /\ lossy = NoArg
    /\ arbitrary_precision = NoArg
    /\ state = NoState

InitStruct ==
    /\ lhs \in StructValues
    /\ rhs \in StructValues
    /\ pc = "ready"
    /\ result = PENDING
    /\ calls = 0
    /\ lossy = NoArg
    /\ arbitrary_precision = NoArg
    /\ state = NoState

\* one call of a binary operator on the operands
Apply(name, res) ==
    /\ pc = "ready"
    /\ pc' = name
    /\ result' = res
    /\ UNCHANGED <<lhs, rhs, calls, lossy, arbitrary_precision, state>>

TryMul == Apply("try_mul", try_mul(lhs, rhs))
TryDiv == Apply("try_div", try_div(lhs, rhs))
TryAdd == Apply("try_add", try_add(lhs, rhs))
TrySub == Apply("try_sub", try_sub(lhs, rhs))
TryAnd == Apply("try_and", try_and(lhs, rhs))
TryRem == Apply("try_rem", try_rem(lhs, rhs))
TryGt == Apply("try_gt", try_gt(lhs, rhs))
TryGe == Apply("try_ge", try_ge(lhs, rhs))
TryLt == Apply("try_lt", try_lt(lhs, rhs))
TryLe == Apply("try_le", try_le(lhs, rhs))
TryMerge == Apply("try_merge", try_merge(lhs, rhs))
\* eq_lossy returns a plain bool
EqLossy == Apply("eq_lossy", <<"bool", eq_lossy(lhs, rhs)>>)
\* the closure evaluates the right operand, or fails
TryOr ==
    /\ pc = "ready"
    /\ \E fails \in BOOLEAN :
         LET rhs_fn == IF fails THEN Err(<<"ExpressionError">>) ELSE Ok(rhs)
             out == try_or(lhs, rhs_fn)
         IN /\ pc' = IF fails THEN "try_or_failing" ELSE "try_or"
            /\ result' = out[1]
            /\ calls' = out[2]
    /\ UNCHANGED <<lhs, rhs, lossy, arbitrary_precision, state>>

Next ==
    \/ TryMul \/ TryDiv \/ TryAdd \/ TrySub \/ TryOr \/ TryAnd \/ TryRem
    \/ TryGt \/ TryGe \/ TryLt \/ TryLe \/ TryMerge \/ EqLossy

Spec == Init /\ [][Next]_vars
SpecStruct == InitStruct /\ [][Next]_vars

\* ------------------------------------------------------------------------
\* The JSON codec: parse_json on a text, and serialization of a Value
\* followed by the precision-preserving parse.
\* ------------------------------------------------------------------------
InitJson ==
    /\ lhs \in {Bytes(t) : t \in JsonInputs}
    /\ rhs \in DepthArgs
    /\ lossy \in LossyArgs
    /\ arbitrary_precision = NoArg
    /\ state = NoState
    /\ pc = "ready"
    /\ result = PENDING
    /\ calls = 0

InitSerde ==
    /\ lhs \in SerdeValues
    /\ rhs = Null
    /\ lossy = NoArg
    /\ arbitrary_precision = NoArg
    /\ state = NoState
    /\ pc = "ready"
    /\ result = PENDING
    /\ calls = 0

ParseJson == Apply("parse_json", parse_json(lhs, lossy))
ParseJsonPrecision == Apply("parse_json_precision", parse_json_precision(lhs, lossy))
ParseJsonWithDepth == Apply("parse_json_with_depth", parse_json_with_depth(lhs, rhs, lossy))
\* serde_json::to_string of the Value the precision-preserving parse returned
SerializeParsed ==
    /\ pc = "parse_json_precision"
    /\ IsOk(result)
    /\ pc' = "serialized"
    /\ result' = <<"text", serialize(result[2])>>
    /\ UNCHANGED <<lhs, rhs, calls, lossy, arbitrary_precision, state>>
\* serde_json::to_string(&value)
Serialize == Apply("to_string", <<"text", serialize(lhs)>>)
\* the serialized text read back through RawValue
ParseRaw ==
    /\ pc = "to_string"
    /\ pc' = "round_trip"
    /\ result' = parse_raw(result[2])
    /\ UNCHANGED <<lhs, rhs, calls, lossy, arbitrary_precision, state>>

JsonNext == ParseJson \/ ParseJsonPrecision \/ ParseJsonWithDepth \/ SerializeParsed
SerdeNext == Serialize \/ ParseRaw

SpecJson == InitJson /\ [][JsonNext]_vars
SpecSerde == InitSerde /\ [][SerdeNext]_vars

\* A call of the parse_json function with any of its optional arguments:
\* rhs holds the optional max_depth.
CallDocuments == {Bytes(t) : t \in Leaves \cup Level1 \cup Level2}
DepthOptions == {NoArg, Some(Integer(1)), Some(Integer(2)), Some(Integer(3))}
InitCall ==
    /\ lhs \in CallDocuments
    /\ rhs \in DepthOptions
    /\ lossy \in LossyArgs
    /\ arbitrary_precision \in LossyArgs
    /\ state = NoState
    /\ pc = "ready"
    /\ result = PENDING
    /\ calls = 0
ResolveParseJson ==
    /\ compile(rhs, arbitrary_precision) = "ParseJsonFn"
    /\ Apply("ParseJsonFn", parse_json(lhs, lossy))
ResolveParseJsonPrecision ==
    /\ compile(rhs, arbitrary_precision) = "ParseJsonPrecisionFn"
    /\ Apply("ParseJsonPrecisionFn", resolve_precision(lhs, lossy, Unwrap(arbitrary_precision)))
ResolveParseJsonMaxDepth ==
    /\ compile(rhs, arbitrary_precision) = "ParseJsonMaxDepthFn"
    /\ Apply("ParseJsonMaxDepthFn", parse_json_with_depth(lhs, Unwrap(rhs), lossy))
CallNext == ResolveParseJson \/ ResolveParseJsonPrecision \/ ResolveParseJsonMaxDepth
SpecCall == InitCall /\ [][CallNext]_vars

\* Value::parse_numeric(use_decimal), applied once and then to its own
\* result: rhs holds use_decimal.
InitNumeric ==
    /\ lhs \in NumericValues
    /\ rhs \in {Boolean(TRUE), Boolean(FALSE)}
    /\ lossy = NoArg
    /\ arbitrary_precision = NoArg
    /\ state \in StaticDefs(lhs)
    /\ pc = "ready"
    /\ result = PENDING
    /\ calls = 0
ParseNumeric == Apply("parse_numeric", Ok(parse_numeric(lhs, rhs[2] = 1)))
ParseNumericAgain ==
    /\ pc = "parse_numeric"
    /\ pc' = "parse_numeric_twice"
    /\ result' = Ok(parse_numeric(result[2], rhs[2] = 1))
    /\ UNCHANGED <<lhs, rhs, calls, lossy, arbitrary_precision, state>>
NumericNext == ParseNumeric \/ ParseNumericAgain
SpecNumeric == InitNumeric /\ [][NumericNext]_vars

\* A call of mod: the runtime operands lie within the static kinds, and a
\* literal modulus has exactly its own kind.
InitMod ==
    /\ lhs \in ModValues
    /\ rhs \in ModValues
    /\ state \in {ModState(vk, mk, lit) : vk \in NumberKinds, mk \in NumberKinds, lit \in BOOLEAN}
    /\ kind(lhs) \in state.value.kind
    /\ kind(rhs) \in state.modulus.kind
    /\ state.literal => state.modulus.kind = {kind(rhs)}
    /\ lossy = NoArg
    /\ arbitrary_precision = NoArg
    /\ pc = "ready"
    /\ result = PENDING
    /\ calls = 0
Mod == Apply("mod", mod(lhs, rhs))
SpecMod == InitMod /\ [][Mod]_vars
\* self.modulus.resolve_constant(state) and the TypeDef of the call
ModConstant == IF state.literal THEN Some(rhs) ELSE NONE
ModTypeDef == mod_type_def(state.value, state.modulus, ModConstant)

InitFn ==
    /\ lhs \in FnValues
    /\ rhs \in PrecisionArgs
    /\ state \in StaticDefs(lhs)
    /\ lossy = NoArg
    /\ arbitrary_precision = NoArg
    /\ pc = "ready"
    /\ result = PENDING
    /\ calls = 0
ToInt == Apply("to_int", to_int(lhs))
AbsFn == \E r \in abs(lhs) : Apply("abs", r)
Floor == Apply("floor", floor(rhs, lhs))
ParseTokens == Apply("parse_tokens", parse_tokens(lhs))
FnNext == ToInt \/ AbsFn \/ Floor \/ ParseTokens
SpecFn == InitFn /\ [][FnNext]_vars

TypeOK ==
    /\ pc \in {"ready", "try_mul", "try_div", "try_add", "try_sub", "try_or",
               "try_or_failing", "try_and", "try_rem", "try_gt", "try_ge",
               "try_lt", "try_le", "try_merge", "eq_lossy", "parse_json",
               "parse_json_precision", "parse_json_with_depth", "serialized",
               "to_string", "round_trip", "ParseJsonFn", "ParseJsonPrecisionFn",
               "ParseJsonMaxDepthFn", "parse_numeric", "parse_numeric_twice",
               "mod", "to_int", "abs", "floor", "parse_tokens"}
    /\ result[1] \in {"pending", "ok", "err", "panic", "bool", "text"}
    /\ calls \in {0, 1}

\* ------------------------------------------------------------------------
\* Properties of the arithmetic engine.
\* ------------------------------------------------------------------------
ArithOps == {"try_add", "try_sub", "try_mul", "try_div", "try_rem"}
CompareOps == {"try_gt", "try_ge", "try_lt", "try_le"}
IsFiniteFloat(v) == is_float(v) /\ ~FIsInf(v[2])
IsZeroValued(v) ==
    \/ is_integer(v) /\ v[2] = 0
    \/ is_float(v) /\ FIsZero(v[2])
    \/ is_decimal(v) /\ DecIsZero(v[2])

\* C1: for every pair of operands, each of try_add, try_sub, try_mul,
\* try_div, try_rem, try_and, try_gt, try_ge, try_lt, try_le and try_merge
\* completes with Ok(value) or Err(ValueError); no call panics or aborts.
C1_NoPanic ==
    pc \in ArithOps \cup CompareOps \cup {"try_and", "try_merge"}
        => result[1] \in {"ok", "err"}

\* C2: try_div and try_rem with a zero-valued Integer, Float (+0.0 or -0.0)
\* or Decimal right operand return Err(DivideByZero) for every left operand,
\* never a type-mismatch error.
C2_ZeroDivisorIsDivideByZero ==
    (pc \in {"try_div", "try_rem"} /\ IsZeroValued(rhs)) => result = Err(DivideByZero)

\* C3: try_add, try_sub, try_mul, try_div and try_rem return Err whenever
\* one operand is a finite Float and the other a Decimal, in either order.
C3_FloatDecimalMixErrors ==
    (/\ pc \in ArithOps
     /\ \/ IsFiniteFloat(lhs) /\ is_decimal(rhs)
        \/ is_decimal(lhs) /\ IsFiniteFloat(rhs))
        => IsErr(result)
C3_Witness ==
    /\ pc = "try_add"
    /\ is_decimal(lhs) /\ IsFiniteFloat(rhs) /\ ~FIsZero(rhs[2]) /\ ~DecIsZero(lhs[2])
    /\ IsErr(result)

\* the operand as the Decimal it denotes (Decimal::from for an Integer)
DecOperand(v) == IF is_integer(v) THEN DecFromI64(v[2]) ELSE v[2]
IsDecimalIntegerPair ==
    \/ is_decimal(lhs) /\ is_decimal(rhs)
    \/ is_decimal(lhs) /\ is_integer(rhs)
    \/ is_integer(lhs) /\ is_decimal(rhs)
C4Case == pc \in {"try_add", "try_sub", "try_mul"} /\ IsDecimalIntegerPair
\* the exact result of the operation is ExactNum / 10^ExactScale
ExactScale ==
    IF pc = "try_mul" THEN DecOperand(lhs)[2] + DecOperand(rhs)[2]
    ELSE Max2(DecOperand(lhs)[2], DecOperand(rhs)[2])
ExactNum ==
    LET a == DecOperand(lhs)
        b == DecOperand(rhs)
    IN CASE pc = "try_add" -> DecAlignL(a, b) + DecAlignR(a, b)
         [] pc = "try_sub" -> DecAlignL(a, b) - DecAlignR(a, b)
         [] pc = "try_mul" -> a[1] * b[1]
         [] OTHER -> 0
\* the result is Ok(Decimal) denoting exactly the exact result
ResultIsExact ==
    /\ IsOk(result) /\ is_decimal(result[2])
    /\ result[2][2][1] * Pow(10, ExactScale) = ExactNum * Pow(10, result[2][2][2])
\* some Decimal (mantissa within DecMaxMant, scale within DecMaxScale)
\* denotes exactly the exact result
ExactIsRepresentable ==
    \E t \in 0..DecMaxScale :
        /\ (ExactNum * Pow(10, t)) % Pow(10, ExactScale) = 0
        /\ Abs(ExactNum * Pow(10, t)) <= DecMaxMant * Pow(10, ExactScale)

\* C4 (as claimed): try_add, try_sub and try_mul on Decimal/Decimal,
\* Decimal/Integer and Integer/Decimal return Err if the exact result lies
\* outside the Decimal range and the exact Decimal result otherwise.
C4_ExactOrError ==
    C4Case =>
        IF Abs(ExactNum) > DecMaxMant * Pow(10, ExactScale)
        THEN IsErr(result)
        ELSE ResultIsExact

\* C4 (amended): on these operands the operators return Err or Ok(Decimal);
\* Err whenever the magnitude of the exact result is at least
\* Decimal::MAX + 1, the exact result whenever a Decimal denotes it, and
\* otherwise, when Ok, the exact result rounded to a representable Decimal,
\* less than one unit of its last place away; never a wrapped value.
C4_CheckedRounded ==
    C4Case =>
        /\ IsErr(result) \/ (IsOk(result) /\ is_decimal(result[2]))
        /\ Abs(ExactNum) >= (DecMaxMant + 1) * Pow(10, ExactScale) => IsErr(result)
        /\ ExactIsRepresentable => ResultIsExact
        /\ IsOk(result) =>
              Abs(result[2][2][1] * Pow(10, ExactScale)
                  - ExactNum * Pow(10, result[2][2][2])) < Pow(10, ExactScale)
C4_Witness ==
    /\ C4Case /\ pc = "try_add" /\ is_decimal(lhs)
    /\ IsOk(result) /\ ~ResultIsExact

\* C5: on two Integers try_add, try_sub and try_mul return Ok(Integer(r))
\* with r the exact result wrapped to 64 bits two's complement, and try_rem
\* with a non-zero divisor returns Ok(Integer) (i64::MIN % -1 = 0); none
\* returns an error because of overflow.
C5_IntegerOpsWrap ==
    (is_integer(lhs) /\ is_integer(rhs)) =>
        LET a == lhs[2]
            b == rhs[2]
            r == result[2][2]
        IN /\ pc \in {"try_add", "try_sub", "try_mul"} =>
                /\ IsOk(result) /\ is_integer(result[2])
                /\ r \in I64_MIN..I64_MAX
                /\ LET exact == CASE pc = "try_add" -> a + b
                                  [] pc = "try_sub" -> a - b
                                  [] pc = "try_mul" -> a * b
                   IN (r - exact) % I64Modulus = 0
           /\ (pc = "try_rem" /\ b # 0) =>
                /\ IsOk(result) /\ is_integer(result[2])
                /\ Abs(r) < Abs(b)
                /\ r = 0 \/ Sgn(r) = Sgn(a)
                /\ (a - r) % Abs(b) = 0
                /\ (a = I64_MIN /\ b = -1) => r = 0
C5_Witness ==
    /\ pc = "try_add" /\ lhs = Integer(I64_MAX) /\ rhs = Integer(1)
    /\ result = Ok(Integer(I64_MIN))

\* the f64 computation behind an operator on Integer and Float operands
AsF64(v) == IF is_integer(v) THEN I64AsF64(v[2]) ELSE v[2]
UnderlyingF64 ==
    CASE pc = "try_add" -> FAdd(AsF64(lhs), AsF64(rhs))
      [] pc = "try_sub" -> FSub(AsF64(lhs), AsF64(rhs))
      [] pc = "try_mul" -> FMul(AsF64(lhs), AsF64(rhs))
      [] pc = "try_div" -> FDiv(AsF64(lhs), AsF64(rhs))
      [] pc = "try_rem" -> FRem(AsF64(lhs), AsF64(rhs))

\* C6: try_add, try_sub, try_mul, try_div and try_rem on Integer/Float
\* operands return Err whenever the underlying f64 computation yields NaN;
\* never Ok with NaN or with a substituted value such as 0.0.
C6_NaNIsError ==
    (/\ pc \in ArithOps
     /\ kind(lhs) \in {"integer", "float"} /\ kind(rhs) \in {"integer", "float"}
     /\ is_float(lhs) \/ is_float(rhs)
     /\ FIsNan(UnderlyingF64))
        => IsErr(result)

ApplyOp(name, l, r) ==
    CASE name = "try_add" -> try_add(l, r)
      [] name = "try_sub" -> try_sub(l, r)
      [] name = "try_mul" -> try_mul(l, r)
      [] name = "try_div" -> try_div(l, r)
C7Case ==
    /\ pc \in {"try_add", "try_sub", "try_mul", "try_div"}
    /\ \/ is_integer(lhs) /\ is_decimal(rhs)
       \/ is_decimal(lhs) /\ is_integer(rhs)
    /\ pc = "try_div" => ~IsZeroValued(rhs)
\* the same operation after converting the Integer operand to Decimal
C7Converted == ApplyOp(pc, Decimal(DecOperand(lhs)), Decimal(DecOperand(rhs)))

\* C7: try_add, try_sub, try_mul and try_div (non-zero divisor) on an
\* Integer and a Decimal, in either order and without overflow, return
\* Ok(Decimal) equal to the same operation on the Integer converted to
\* Decimal (1.5 + 2 = 3.5, 2.5 * 4 = 10.0, 10 / 4 = 2.5); never a Float or
\* an Integer.
C7_IntegerPromotesToDecimal ==
    C7Case =>
        /\ IsOk(result) <=> IsOk(C7Converted)
        /\ IsOk(result) =>
              /\ is_decimal(result[2])
              /\ DecEq(result[2][2], C7Converted[2][2])
        /\ (pc = "try_add" /\ lhs = Decimal(<<15, 1>>) /\ rhs = Integer(2))
              => result = Ok(Decimal(<<35, 1>>))
        /\ (pc = "try_sub" /\ lhs = Integer(2) /\ rhs = Decimal(<<15, 1>>))
              => result = Ok(Decimal(<<5, 1>>))
        /\ (pc = "try_mul" /\ lhs = Decimal(<<25, 1>>) /\ rhs = Integer(4))
              => IsOk(result) /\ DecEq(result[2][2], <<10, 0>>)
        /\ (pc = "try_div" /\ lhs = Decimal(<<10, 0>>) /\ rhs = Integer(4))
              => IsOk(result) /\ DecEq(result[2][2], <<25, 1>>)
C7_Witness ==
    /\ pc = "try_add" /\ lhs = Integer(2) /\ rhs = Decimal(<<15, 1>>)
    /\ result = Ok(Decimal(<<35, 1>>))

IsFalsy(v) == v = Null \/ v = Boolean(FALSE)

\* C8: try_or invokes the closure exactly once if and only if the left
\* operand is Null or Boolean(false), and then returns the closure's value
\* or its error wrapped in the Or error; for every other left operand the
\* closure is not invoked and the left operand is returned unchanged.
C8_OrShortCircuits ==
    pc \in {"try_or", "try_or_failing"} =>
        /\ calls = 1 <=> IsFalsy(lhs)
        /\ calls = 0 <=> ~IsFalsy(lhs)
        /\ (IsFalsy(lhs) /\ pc = "try_or") => result = Ok(rhs)
        /\ (IsFalsy(lhs) /\ pc = "try_or_failing")
              => result = Err(<<"Or", <<"ExpressionError">>>>)
        /\ ~IsFalsy(lhs) => result = Ok(lhs)
C8_Witness ==
    /\ pc = "try_or_failing" /\ lhs = Boolean(FALSE) /\ calls = 1
    /\ result = Err(<<"Or", <<"ExpressionError">>>>)

IsBooleanOrNull(v) == kind(v) \in {"boolean", "null"}

\* C9: try_and returns an error whenever either operand is neither Boolean
\* nor Null, whatever the other operand is; on two Boolean-or-Null operands
\* it returns Boolean(true) only if both are Boolean(true), else
\* Boolean(false).
C9_AndRequiresBooleanOrNull ==
    pc = "try_and" =>
        IF IsBooleanOrNull(lhs) /\ IsBooleanOrNull(rhs)
        THEN result = Ok(Boolean(lhs = Boolean(TRUE) /\ rhs = Boolean(TRUE)))
        ELSE IsErr(result)

KeysOf(o) == {o[i][1] : i \in 1..Len(o)}
Lookup(o, k) == o[CHOOSE i \in 1..Len(o) : o[i][1] = k][2]

\* C10: try_merge of two Objects L and R returns an Object whose key set is
\* keys(L) union keys(R), each key mapping to R's value if R has the key
\* and to L's value otherwise (nested objects are replaced, not merged);
\* if either operand is not an Object it returns the Merge error carrying
\* both operand kinds.
C10_MergeRightWins ==
    pc = "try_merge" =>
        IF kind(lhs) = "object" /\ kind(rhs) = "object"
        THEN /\ IsOk(result) /\ kind(result[2]) = "object"
             /\ LET m == result[2][2]
                IN /\ KeysOf(m) = KeysOf(lhs[2]) \cup KeysOf(rhs[2])
                   /\ Len(m) = Cardinality(KeysOf(m))
                   /\ \A k \in KeysOf(m) :
                         Lookup(m, k) = IF k \in KeysOf(rhs[2]) THEN Lookup(rhs[2], k)
                                        ELSE Lookup(lhs[2], k)
        ELSE result = Err(<<"Merge", kind(lhs), kind(rhs)>>)
C10_Witness ==
    /\ pc = "try_merge" /\ kind(lhs) = "object" /\ kind(rhs) = "object"
    /\ IsOk(result)
    /\ \E k \in KeysOf(lhs[2]) \cap KeysOf(rhs[2]) :
          /\ kind(Lookup(lhs[2], k)) = "object" /\ kind(Lookup(rhs[2], k)) = "object"
          /\ Lookup(lhs[2], k) # Lookup(rhs[2], k)
          /\ Lookup(result[2][2], k) = Lookup(rhs[2], k)
    /\ KeysOf(lhs[2]) \ KeysOf(rhs[2]) # {}

\* ------------------------------------------------------------------------
\* Lossy equality and comparisons.
\* ------------------------------------------------------------------------
IsNumeric(v) == kind(v) \in {"integer", "float", "decimal"}
\* the number a numeric Value denotes, as a numerator over the common
\* denominator FloatQuantum * 10^DecMaxScale; the infinities denote no number
Denominator == FloatQuantum * Pow(10, DecMaxScale)
Numerator(v) ==
    IF is_integer(v) THEN v[2] * Denominator
    ELSE IF is_float(v) THEN FNum(v[2]) * Pow(10, DecMaxScale)
    ELSE v[2][1] * Pow(10, DecMaxScale - v[2][2]) * FloatQuantum
DenoteSameNumber(a, b) ==
    /\ ~(is_float(a) /\ FIsInf(a[2]))
    /\ ~(is_float(b) /\ FIsInf(b[2]))
    /\ Numerator(a) = Numerator(b)

\* C11: eq_lossy of numeric operands of different kinds is true exactly
\* when they denote the same number, and eq_lossy of a pair with a
\* non-numeric operand equals the structural equality a == b.
C11_EqLossySameNumber ==
    pc = "eq_lossy" =>
        IF IsNumeric(lhs) /\ IsNumeric(rhs)
        THEN kind(lhs) # kind(rhs) => (result[2] <=> DenoteSameNumber(lhs, rhs))
        ELSE result[2] <=> PartialEq(lhs, rhs)

\* the ordering a comparison method applies
CmpOpOf(name) ==
    CASE name = "try_gt" -> "gt" [] name = "try_ge" -> "ge"
      [] name = "try_lt" -> "lt" [] name = "try_le" -> "le"
IsIntegerDecimalPair ==
    \/ is_integer(lhs) /\ is_decimal(rhs)
    \/ is_decimal(lhs) /\ is_integer(rhs)

\* C12: a comparison of an Integer with a Decimal, in either operand order,
\* is Ok(Boolean) of the comparison of the Integer converted to Decimal
\* against the Decimal; it neither errors nor truncates the Decimal.
C12_IntegerDecimalCompare ==
    (pc \in CompareOps /\ IsIntegerDecimalPair) =>
        result = Ok(Boolean(CmpDecimal(CmpOpOf(pc), DecOperand(lhs), DecOperand(rhs))))

\* the ValueError variant named after each operator
VariantOf(name) ==
    CASE name = "try_add" -> "Add" [] name = "try_sub" -> "Sub"
      [] name = "try_mul" -> "Mul" [] name = "try_div" -> "Div"
      [] name = "try_rem" -> "Rem" [] name = "try_gt" -> "Gt"
      [] name = "try_ge" -> "Ge" [] name = "try_lt" -> "Lt"
      [] name = "try_le" -> "Le" [] name = "try_and" -> "And"
      [] name = "try_merge" -> "Merge"

\* C13: an operator that fails because of the operand kinds returns the
\* ValueError variant of that same operator, carrying the kinds of the
\* actual left and right operands.
C13_ErrorVariantOfOperator ==
    (pc \in ArithOps \cup CompareOps \cup {"try_and", "try_merge"}
        /\ IsErr(result) /\ result # Err(DivideByZero)) =>
        result = Err(OpError(VariantOf(pc), lhs, rhs))

\* ------------------------------------------------------------------------
\* The precision-preserving parse and the serializer.
\* ------------------------------------------------------------------------
\* the exact value of a number token without exponent:
\* TokenMantissa / 10^TokenScale
TokenFrac(t) == SubSeq(t, IndexOf(t, {"."}) + 1, Len(t))
TokenScale(t) == Len(TokenFrac(t))
TokenMantissa(t) ==
    LET body == IF t[1] = "-" THEN Tail(t) ELSE t
        v == DigitsVal(SelectSeq(body, IsDigit))
    IN IF t[1] = "-" THEN -v ELSE v
HasExponent(t) == Contains(t, {"e", "E"})
HasPoint(t) == Contains(t, {"."})
InI64(t) == ~HasPoint(t) /\ ~HasExponent(t) /\ TokenMantissa(t) \in I64_MIN..I64_MAX
\* the Decimal d = <<mantissa, scale>> has the value of token t, or is less
\* than 1 away from it
DecimalIsToken(d, t) == d[1] * Pow(10, TokenScale(t)) = TokenMantissa(t) * Pow(10, d[2])
DecimalNearToken(d, t) ==
    Abs(d[1] * Pow(10, TokenScale(t)) - TokenMantissa(t) * Pow(10, d[2])) < Pow(10, TokenScale(t) + d[2])
\* some Decimal has the value of token t
Representable(t) == \E d \in Decimals : DecimalIsToken(d[2], t)
IsKind(r, k) == IsOk(r) /\ r[2][1] = k
ParsedNumber == pc = "parse_json_precision" /\ lhs[2] \in NumberTexts

DecimalLiteral(t) ==
    /\ t \in NumberTexts
    /\ HasPoint(t) /\ ~HasExponent(t)
    /\ TokenScale(t) <= DecMaxScale
    /\ Abs(TokenMantissa(t)) <= DecMaxMant
\* the literal's fractional digits are all zero and its value fits an i64
TokenWhole(t) == TokenMantissa(t) % Pow(10, TokenScale(t)) = 0
TokenInteger(t) == TokenMantissa(t) \div Pow(10, TokenScale(t))
WholeInI64(t) == TokenWhole(t) /\ TokenInteger(t) \in I64_MIN..I64_MAX
SerializedLiteral == pc = "serialized" /\ DecimalLiteral(lhs[2])

SameDecimal(d, v) == kind(v) = "decimal" /\ DecEq(d, v[2])
DecimalOrInteger(d, v) ==
    IF DecFractIsZero(d) /\ d[1] \div Pow(10, d[2]) \in I64_MIN..I64_MAX
    THEN v = Integer(d[1] \div Pow(10, d[2]))
    ELSE SameDecimal(d, v)
\* the containers of the amended C16: every leaf is an Integer, a Decimal, a
\* Boolean, a Null or a string
RECURSIVE PlainLeaves(_)
PlainLeaves(v) ==
    CASE kind(v) = "array" -> \A i \in 1..Len(v[2]) : PlainLeaves(v[2][i])
      [] kind(v) = "object" -> \A i \in 1..Len(v[2]) : PlainLeaves(v[2][i][2])
      [] OTHER -> kind(v) \in {"integer", "decimal", "boolean", "null", "bytes"}
\* v holds a Decimal, alone or nested
RECURSIVE HoldsDecimal(_)
HoldsDecimal(v) ==
    CASE kind(v) = "array" -> \E i \in 1..Len(v[2]) : HoldsDecimal(v[2][i])
      [] kind(v) = "object" -> \E i \in 1..Len(v[2]) : HoldsDecimal(v[2][i][2])
      [] OTHER -> kind(v) = "decimal"
\* at every position where v holds a Decimal d, w holds the value d comes
\* back as: a Decimal equal to d (always), or DecimalOrInteger
RECURSIVE DecimalsComeBack(_, _, _)
DecimalsComeBack(v, w, always) ==
    CASE kind(v) = "decimal" -> IF always THEN SameDecimal(v[2], w) ELSE DecimalOrInteger(v[2], w)
      [] kind(v) = "array" ->
            /\ kind(w) = "array" /\ Len(w[2]) = Len(v[2])
            /\ \A i \in 1..Len(v[2]) : DecimalsComeBack(v[2][i], w[2][i], always)
      [] kind(v) = "object" ->
            /\ kind(w) = "object" /\ Len(w[2]) = Len(v[2])
            /\ \A i \in 1..Len(v[2]) :
                   /\ w[2][i][1] = v[2][i][1]
                   /\ DecimalsComeBack(v[2][i][2], w[2][i][2], always)
      [] OTHER -> TRUE
RoundTripped == pc = "round_trip" /\ HoldsDecimal(lhs)

RECURSIVE DepthView(_, _, _)
DepthView(raw, d, L) ==
    IF raw[1] \in {"{", "["}
    THEN IF L = d THEN Bytes(raw)
         ELSE LET ms == MembersOf(raw)
              IN IF raw[1] = "{"
                 THEN Object([i \in 1..Len(ms) |-> <<ms[i][1], DepthView(ms[i][2], d, L + 1)>>])
                 ELSE Array([i \in 1..Len(ms) |-> DepthView(ms[i][2], d, L + 1)])
    ELSE DeserializeValue(raw)[2]
\* the input is a valid JSON document (no byte-order mark) that the standard
\* parse accepts, and max_depth is in range
ValidDocument == lhs[2] \in Documents /\ IsOk(parse_json(lhs, lossy))
DepthInRange == rhs[2] \in 1..MAX_DEPTH
DepthParsed == pc = "parse_json_with_depth" /\ ValidDocument /\ DepthInRange
TextOf(v, l) == IF LossyFlag(l)[2] THEN Utf8Lossy(v[2]) ELSE v[2]

\* C17: parse_json with max_depth = d returns the containers above level d
\* parsed, the containers at level d as strings of their raw source text,
\* and every scalar it reaches parsed normally.
C17_DepthLayers ==
    DepthParsed =>
        result = Ok(DepthView(Unwrap(FromStrRawValue(TextOf(lhs, lossy))), rhs[2], 0))

\* the container nesting depth of a document: 0 for a scalar
RECURSIVE NestingDepth(_)
NestingDepth(raw) ==
    IF raw[1] \in {"{", "["}
    THEN LET ms == RawMembers(raw)
             depths == {NestingDepth(ms[i][2]) : i \in 1..Len(ms)}
         IN 1 + (IF depths = {} THEN 0 ELSE CHOOSE m \in depths : \A n \in depths : n <= m)
    ELSE 0

\* C18: on a valid document nested at most max_depth deep, parse_json with
\* max_depth returns the Value parse_json returns without it (same lossy
\* flag), numbers included.
C18_DepthParseIsParse ==
    (DepthParsed /\ NestingDepth(Unwrap(FromStrRawValue(TextOf(lhs, lossy)))) <= rhs[2]) =>
        result = parse_json(lhs, lossy)

\* the descriptive range error of validate_depth
DepthRangeError(n) == Err(<<"max_depth value should be greater than 0 and less than 128, got", n>>)

\* C19: an integer max_depth is accepted iff 1 <= max_depth <= 128; every
\* other integer is rejected with the descriptive range error, before the
\* JSON input is parsed.
C19_DepthValidated ==
    pc = "parse_json_with_depth" =>
        /\ validate_depth(rhs) = (IF rhs[2] \in 1..MAX_DEPTH THEN Ok(rhs[2]) ELSE DepthRangeError(rhs[2]))
        /\ rhs[2] \notin 1..MAX_DEPTH => result = DepthRangeError(rhs[2])

\* the call of the current path on another input
PathResult(value) ==
    CASE pc = "parse_json" -> parse_json(value, lossy)
      [] pc = "parse_json_precision" -> parse_json_precision(value, lossy)
      [] pc = "parse_json_with_depth" -> parse_json_with_depth(value, rhs, lossy)
      [] OTHER -> PENDING
WithBom == Len(lhs[2]) > 1 /\ lhs[2][1] = BOM
WithoutBom == Bytes(Tail(lhs[2]))

\* C20: on each of the three parse paths, with lossy true or false, a
\* byte-order mark followed by a valid document parses to the Value of the
\* document without the mark.
C20_BomIsStripped ==
    (WithBom /\ IsOk(PathResult(WithoutBom))) => result = PathResult(WithoutBom)

\* ------------------------------------------------------------------------
\* The stdlib functions and their type definitions.
\* ------------------------------------------------------------------------
\* v holds a Float, alone or nested
RECURSIVE HoldsFloat(_)
HoldsFloat(v) ==
    CASE kind(v) = "array" -> \E i \in 1..Len(v[2]) : HoldsFloat(v[2][i])
      [] kind(v) = "object" -> \E i \in 1..Len(v[2]) : HoldsFloat(v[2][i][2])
      [] OTHER -> kind(v) = "float"
Called == pc \in {"ParseJsonFn", "ParseJsonPrecisionFn", "ParseJsonMaxDepthFn"}

\* C21: a call of parse_json with arbitrary_precision = true, with or
\* without max_depth and lossy, returns no Float.
C21_ArbitraryPrecisionNoFloat ==
    (Called /\ arbitrary_precision = Some(Boolean(TRUE)) /\ IsOk(result)) => ~HoldsFloat(result[2])

\* what C22 states of the Bytes self, read with use_decimal, and the result
\* r: the trimmed text decides, the untrimmed Bytes stay when nothing applies
PromotedBytes(self, use_decimal, r) ==
    LET s == Trim(self[2])
        numeric == IsUtf8(self[2]) /\ s # <<>> /\ (IsDigit(s[1]) \/ s[1] \in {"-", "+", "."})
        f == ParseF64(s)
    IN IF ~numeric THEN r = self
       ELSE IF ~Contains(s, {"."}) /\ IsSome(ParseI64(s)) THEN r = Integer(Unwrap(ParseI64(s)))
       ELSE IF use_decimal
       THEN (IF IsSome(ParseDecimal(s)) THEN r = Decimal(Unwrap(ParseDecimal(s))) ELSE r = self)
       ELSE (IF IsSome(f) /\ ~FIsNan(Unwrap(f))
             THEN r = Float(Unwrap(f)) /\ ~FIsInf(Unwrap(f))
             ELSE r = self)
RECURSIVE Promoted(_, _, _)
Promoted(self, use_decimal, r) ==
    CASE kind(self) = "bytes" -> PromotedBytes(self, use_decimal, r)
      [] kind(self) = "array" ->
            /\ kind(r) = "array" /\ Len(r[2]) = Len(self[2])
            /\ \A i \in 1..Len(self[2]) : Promoted(self[2][i], use_decimal, r[2][i])
      [] kind(self) = "object" ->
            /\ kind(r) = "object" /\ Len(r[2]) = Len(self[2])
            /\ \A i \in 1..Len(self[2]) :
                   /\ r[2][i][1] = self[2][i][1]
                   /\ Promoted(self[2][i][2], use_decimal, r[2][i][2])
      [] OTHER -> r = self

\* C22: parse_numeric maps Bytes to Integer, to Decimal or a finite Float by
\* the flag, or leaves them unchanged; arrays and objects element-wise;
\* every other variant unchanged.
C22_ParseNumericPromotes ==
    pc = "parse_numeric" => Promoted(lhs, rhs[2] = 1, result[2])

\* C23: the TypeDef of mod is sound for try_rem: an Err makes it fallible,
\* and the kind of an Ok value is in its kind set.
C23_ModTypeDefSound ==
    pc = "mod" =>
        /\ IsErr(result) => ModTypeDef.fallible
        /\ IsOk(result) => kind(result[2]) \in ModTypeDef.kind

\* C24: the TypeDef of mod is fallible with kind never exactly when the
\* static kinds are exactly Float and exactly Decimal, in either order,
\* whatever the modulus literal.
PinnedMix ==
    \/ state.value.kind = {"float"} /\ state.modulus.kind = {"decimal"}
    \/ state.value.kind = {"decimal"} /\ state.modulus.kind = {"float"}
C24_NeverIffPinnedMix ==
    pc = "mod" =>
        /\ PinnedMix => (ModTypeDef.kind = NEVER /\ ModTypeDef.fallible)
        /\ ~PinnedMix => ModTypeDef.kind # NEVER
C24_Witness ==
    /\ pc = "mod"
    /\ state.value.kind = {"decimal"} /\ state.modulus.kind = {"float"} /\ state.literal
    /\ ModTypeDef = TypeDef(NEVER, {}, TRUE)
    /\ IsErr(result)


\* C25: the TypeDef of to_int is sound: a value whose kind is within the
\* static kind of the argument and on which to_int fails has a fallible
\* TypeDef, every Ok result is an Integer, and Integer, Float, Boolean, Null
\* and Timestamp never fail.
C25_ToIntTypeDefSound ==
    pc = "to_int" =>
        /\ result[1] \in {"ok", "err"}
        /\ result[1] = "err" => to_int_type_def(state).fallible
        /\ result[1] = "ok" => KindContains(to_int_type_def(state), result[2])
        /\ kind(lhs) \in {"integer", "float", "boolean", "null", "timestamp"} => result[1] = "ok"


\* C26: the TypeDef of parse_numeric is a superset of the kind of every
\* result, with the promoted elements and fields included, whatever the
\* static kind of the argument: exactly bytes, a union with bytes, an array
\* or object, or any other.
C26_ParseNumericTypeDefSound ==
    pc = "parse_numeric" =>
        /\ result[1] = "ok"
        /\ KindContains(parse_numeric_type_def(state), result[2])


\* d rounded down (toward negative infinity) to p decimal places
DecFloorTo(d, p) ==
    IF p >= d[2] THEN d
    ELSE <<d[1] \div Pow(10, d[2] - p), p>>
Precision == IF IsSome(rhs) THEN rhs[2][2] ELSE 0

\* C27: floor with precision p rounds a Decimal down to p decimal places, as
\* it does a Float (here at p = 0, where the scaled f64 is exact), and
\* returns an Integer unchanged.
C27_FloorHonoursPrecision ==
    pc = "floor" /\ kind(lhs) \in {"integer", "float", "decimal"} =>
        /\ result[1] = "ok"
        /\ kind(lhs) = "integer" => result[2] = lhs
        /\ kind(lhs) = "decimal" =>
               /\ kind(result[2]) = "decimal"
               /\ DecEq(result[2][2], DecFloorTo(lhs[2], Precision))
        /\ kind(lhs) = "float" /\ Precision = 0 =>
               result[2] = from_f64_or_zero(FFloor(lhs[2]))


\* C28: every element of the array parse_tokens returns has a kind within
\* the element kind its TypeDef declares (bytes), the elements of empty
\* and of "-" tokens included.
C28_ParseTokensElementsDeclared ==
    pc = "parse_tokens" /\ result[1] = "ok" =>
        KindContains(parse_tokens_type_def, result[2])

\* C29: abs of an Integer, i64::MIN included, is Ok of the non-negative
\* Integer of the same magnitude; it never fails, panics or returns a
\* negative value.
C29_AbsIntegerTotal ==
    pc = "abs" /\ kind(lhs) = "integer" =>
        /\ result[1] = "ok"
        /\ kind(result[2]) = "integer"
        /\ result[2][2] >= 0
        /\ result[2][2] = Abs(lhs[2])


\* C30: parse_numeric is idempotent for a fixed flag: applying it to its own
\* result returns that result.
C30_ParseNumericIdempotent ==
    [][ParseNumericAgain => result' = result]_vars
C30_Witness ==
    /\ pc = "parse_numeric_twice"
    /\ kind(lhs) = "array"
    /\ result[2] # lhs
    /\ \E i \in 1..Len(result[2][2]) : kind(result[2][2][i]) = "bytes"

====
